---- MODULE Spec2Model ----
(***************************************************************************)
(* A model of udiald, the UMTS connection manager.                         *)
(*                                                                         *)
(*   SpecGet : one call of udiald_tty_get (src/src/tty.c), byte by byte,   *)
(*             against every way the modem can deliver its bytes.          *)
(*   Spec    : the session state machine of main (src/src/udiald.c), with  *)
(*             signals delivered between any two steps.                    *)
(*                                                                         *)
(* Characters are one-character strings; C strings are tuples of them.     *)
(***************************************************************************)
EXTENDS Integers, Sequences, FiniteSets, TLC

(***************************************************************************)
(* Bounds of the model.                                                    *)
(***************************************************************************)
\* lengthof(raw_buf): the byte buffer of struct udiald_tty_read, scaled down.
RawBufLen == 5
\* lengthof(raw_lines): the line-start array of struct udiald_tty_read, scaled down.
RawLinesLen == 3
\* How many bytes the modem emits at most during one call.
MaxBytes == 7
\* The timeout argument of udiald_tty_get, in ticks.
Timeout == 2
\* The clock is followed up to this many ticks.
MaxElapsed == 3
\* The passes through the status loop followed.
MaxStatus == 1
\* lengthof(r->flat_buf).
FlatBufLen == 14
\* The longest line of a buffer handed to udiald_tty_flatten_result.
MaxLineLen == 2
\* How many times in a row one buffer is flattened.
MaxFlattens == 2

(***************************************************************************)
(* Characters and strings.                                                 *)
(***************************************************************************)
CR == "\r"
LF == "\n"
NUL == "NUL"
\* A byte of the caller's stack frame that nothing has written yet.
UNINIT == "UNINIT"
\* The null pointer, among offsets into raw_buf.
NULL == -1
\* A pointer of the caller's stack frame that nothing has written yet.
UNINIT_PTR == -2
\* A null char pointer where a string is expected.
NULLSTR == << "NULL" >>

\* The AT status codes, in the order of the array; the tag returned is the index,
\* counted from 1.
ttyresstr ==
    << <<"O", "K">>,
       <<"C", "O", "N", "N", "E", "C", "T">>,
       <<"E", "R", "R", "O", "R">>,
       <<"+", "C", "M", "E", " ", "E", "R", "R", "O", "R">>,
       <<"N", "O", " ", "D", "I", "A", "L", "T", "O", "N", "E">>,
       <<"B", "U", "S", "Y">>,
       <<"N", "O", " ", "C", "A", "R", "R", "I", "E", "R">>,
       <<"C", "O", "M", "M", "A", "N", "D", " ", "N", "O", "T", " ",
         "S", "U", "P", "P", "O", "R", "T">> >>

UDIALD_AT_OK == 1

\* !strncmp(s, p, strlen(p)) for NUL-terminated s: s starts with p.
StartsWith(s, p) ==
    /\ Len(s) >= Len(p)
    /\ \A k \in 1..Len(p) : s[k] = p[k]

\* The loop over ttyresstr: the first index whose code the line starts with, 0 if none.
MatchTag(line) ==
    IF \E i \in 1..Len(ttyresstr) : StartsWith(line, ttyresstr[i])
    THEN CHOOSE i \in 1..Len(ttyresstr) :
            /\ StartsWith(line, ttyresstr[i])
            /\ \A j \in 1..(i - 1) : ~StartsWith(line, ttyresstr[j])
    ELSE 0

(***************************************************************************)
(* What the modem may emit in one piece: parts of lines and line ends.     *)
(***************************************************************************)
Chunks == { <<"O">>, <<"K">>, <<"^">>, <<CR>>, <<CR, LF>> }

\* The result_prefix arguments tried.
Prefixes == { NULLSTR, <<"O">> }

VARIABLES
    \* ---- udiald_tty_get: arguments, locals and struct udiald_tty_read ----
    get_pc,         \* "poll" | "read" | "ret" | "ub"
    result_prefix,  \* NULLSTR or a string
    raw_buf,        \* 0..RawBufLen-1 -> character
    raw_lines,      \* 0..RawLinesLen-1 -> offset into raw_buf, or UNINIT_PTR
    lines,          \* r->lines
    result_line,    \* NULL or an offset into raw_buf
    c,              \* offset of the write cursor in raw_buf
    rem,            \* size_t: a negative n stands for 2^64 + n
    in_newline,
    get_res,        \* 0 while running, then a tag 1..8, or -1
    get_errno,
    \* ---- the descriptor ----
    pending,        \* bytes the kernel holds for read()
    hup,            \* the line hung up: read() returns 0
    emitted,        \* bytes the modem has emitted so far
    elapsed,        \* ticks since the call began
    oob             \* a byte was stored outside raw_buf

getvars == << get_pc, result_prefix, raw_buf, raw_lines, lines, result_line, c, rem,
              in_newline, get_res, get_errno, pending, hup, emitted, elapsed, oob >>

VARIABLES
    \* ---- the process: struct udiald_state, the globals and main's position ----
    pc,             \* where main is
    app,            \* state.app
    flag_teststate, \* UDIALD_FLAG_TESTSTATE in state.flags (-t)
    flag_signaled,  \* UDIALD_FLAG_SIGNALED in state.flags
    signaled,       \* the global: 0 or the number of the first signal caught
    handler,        \* signal number -> "default" | "safe" | "catch"
    ctlfd,          \* state.ctlfd: 0 at start, 1 when open, -1 when closed
    sim_state,      \* state.sim_state
    is_gsm,         \* state.is_gsm
    pin,            \* state.pin (--pin)
    pukargs,        \* what follows the options on the command line
    profile,        \* index of state.modem.profile in profiles, 0 before discovery
    status,         \* the local of udiald_connect_status_mainloop
    probe_i,        \* which command of udiald_probe is next
    exit_code,      \* -1 while the process runs
    \* ---- the config store ----
    uci,            \* the uci context in memory
    saved,          \* what ucix_save has written
    \* ---- the control line and the link child ----
    sent,           \* the commands written to the open control line
    unread,         \* puts since the last get: 0, 1, or 2 once two puts had no get between
    r,              \* the struct udiald_tty_read of a phase, between its get and its test
    modem,          \* the modem whose profile is looked up
    pppd,           \* "none" | "running" | "zombie" | "reaped"
    pppd_status,    \* the wait status of the child once it has ended
    \* ---- udiald_catch_signal in progress ----
    catching,       \* the signals whose handler found signaled 0 and has yet to assign
                    \* it, the outermost (first delivered) first
    interrupted,    \* where main was interrupted by the outermost of them
    \* ---- the run ----
    done            \* the phases completed so far, in order

mainvars == << pc, app, flag_teststate, flag_signaled, signaled, handler, ctlfd, sim_state,
               is_gsm, pin, pukargs, profile, status, probe_i, exit_code, uci, saved, sent,
               unread, r, modem, pppd, pppd_status, catching, interrupted, done >>

VARIABLES
    \* ---- a call of udiald_tty_flatten_result ----
    flat_pc,        \* "idle" | "call" | "returned" | "hung"
    flat_r,         \* the lines of *r: r->lines and the strings at r->raw_lines[i]
    flat_buf,       \* the string in r->flat_buf, up to its NUL
    flat_calls      \* the calls made on flat_r so far

flatvars == << flat_pc, flat_r, flat_buf, flat_calls >>

vars == << getvars, mainvars, flatvars >>

Offsets == 0..(RawBufLen - 1)

\* The C string at offset o of a buffer: up to the first NUL (or the buffer's end).
CStrOf(buf, o) ==
    LET stops == { k \in o..(RawBufLen - 1) : buf[k] = NUL }
        end == IF stops = {} THEN RawBufLen
               ELSE CHOOSE k \in stops : \A m \in stops : k <= m
    IN [ k \in 1..(end - o) |-> buf[o + k - 1] ]

\* raw_lines[i] as a string.
LineStr(i) == CStrOf(raw_buf, raw_lines[i])

(***************************************************************************)
(* udiald_tty_get, lines 105-113: the state on entry to the outer loop.    *)
(***************************************************************************)
GetInit ==
    /\ get_pc = "poll"
    /\ result_prefix \in Prefixes
    /\ raw_buf = [ k \in Offsets |-> UNINIT ]
    /\ raw_lines = [ k \in 0..(RawLinesLen - 1) |-> UNINIT_PTR ]
    /\ lines = 0
    /\ result_line = NULL
    /\ c = 0
    /\ rem = RawBufLen
    /\ in_newline = TRUE
    /\ get_res = 0
    /\ get_errno = "none"
    /\ pending = << >>
    /\ hup = FALSE
    /\ emitted = 0
    /\ elapsed = 0
    /\ oob = FALSE

Return(res, err) ==
    /\ get_pc' = "ret"
    /\ get_res' = res
    /\ get_errno' = err

\* while (rem > 0) fails: "No complete response received within %zu bytes".
OuterExit ==
    /\ get_pc = "poll"
    /\ rem = 0
    /\ Return(-1, "ERANGE")
    /\ UNCHANGED << result_prefix, raw_buf, raw_lines, lines, result_line, c, rem,
                    in_newline, pending, hup, emitted, elapsed, oob >>
    /\ UNCHANGED << mainvars, flatvars >>

\* poll() returns 0 after the whole timeout.
PollTimeout ==
    /\ get_pc = "poll"
    /\ rem # 0
    /\ pending = << >>
    /\ ~hup
    /\ elapsed' = elapsed + Timeout
    /\ Return(-1, "ETIMEDOUT")
    /\ UNCHANGED << result_prefix, raw_buf, raw_lines, lines, result_line, c, rem,
                    in_newline, pending, hup, emitted, oob >>
    /\ UNCHANGED << mainvars, flatvars >>

\* poll() returns -1.
PollError ==
    /\ get_pc = "poll"
    /\ rem # 0
    /\ Return(-1, "EINTR")
    /\ UNCHANGED << result_prefix, raw_buf, raw_lines, lines, result_line, c, rem,
                    in_newline, pending, hup, emitted, elapsed, oob >>
    /\ UNCHANGED << mainvars, flatvars >>

\* poll() returns 1 at once: bytes are waiting, or the line has hung up.
PollReady ==
    /\ get_pc = "poll"
    /\ rem # 0
    /\ (pending # << >> \/ hup)
    /\ get_pc' = "read"
    /\ UNCHANGED << result_prefix, raw_buf, raw_lines, lines, result_line, c, rem,
                    in_newline, get_res, get_errno, pending, hup, emitted, elapsed, oob >>
    /\ UNCHANGED << mainvars, flatvars >>

\* poll() returns 1 after w < timeout ticks, when the modem emits a chunk.
PollWait(w, chunk) ==
    /\ get_pc = "poll"
    /\ rem # 0
    /\ pending = << >>
    /\ ~hup
    /\ emitted + Len(chunk) <= MaxBytes
    /\ elapsed + w <= MaxElapsed
    /\ elapsed' = elapsed + w
    /\ pending' = chunk
    /\ emitted' = emitted + Len(chunk)
    /\ get_pc' = "read"
    /\ UNCHANGED << result_prefix, raw_buf, raw_lines, lines, result_line, c, rem,
                    in_newline, get_res, get_errno, hup, oob >>
    /\ UNCHANGED << mainvars, flatvars >>

\* poll() returns 1 after w < timeout ticks with POLLHUP.
PollHup(w) ==
    /\ get_pc = "poll"
    /\ rem # 0
    /\ pending = << >>
    /\ ~hup
    /\ elapsed + w <= MaxElapsed
    /\ elapsed' = elapsed + w
    /\ hup' = TRUE
    /\ get_pc' = "read"
    /\ UNCHANGED << result_prefix, raw_buf, raw_lines, lines, result_line, c, rem,
                    in_newline, get_res, get_errno, pending, emitted, oob >>
    /\ UNCHANGED << mainvars, flatvars >>

\* The modem emits a chunk while the inner loop is reading.
Arrive(chunk) ==
    /\ get_pc = "read"
    /\ pending = << >>
    /\ ~hup
    /\ emitted + Len(chunk) <= MaxBytes
    /\ pending' = chunk
    /\ emitted' = emitted + Len(chunk)
    /\ UNCHANGED << get_pc, result_prefix, raw_buf, raw_lines, lines, result_line, c, rem,
                    in_newline, get_res, get_errno, hup, elapsed, oob >>
    /\ UNCHANGED << mainvars, flatvars >>

\* read() returns -1 with EAGAIN or EWOULDBLOCK: back to the outer loop.
ReadAgain ==
    /\ get_pc = "read"
    /\ pending = << >>
    /\ ~hup
    /\ get_pc' = "poll"
    /\ UNCHANGED << result_prefix, raw_buf, raw_lines, lines, result_line, c, rem,
                    in_newline, get_res, get_errno, pending, hup, emitted, elapsed, oob >>
    /\ UNCHANGED << mainvars, flatvars >>

\* read() returns 0 (end of file): the inner loop ends with rxed = 0, which line 190
\* does not take for an error, so the outer loop goes on.
ReadEof ==
    /\ get_pc = "read"
    /\ pending = << >>
    /\ hup
    /\ get_pc' = "poll"
    /\ UNCHANGED << result_prefix, raw_buf, raw_lines, lines, result_line, c, rem,
                    in_newline, get_res, get_errno, pending, hup, emitted, elapsed, oob >>
    /\ UNCHANGED << mainvars, flatvars >>

\* read() returns -1 with another errno: "Read failed".
ReadError ==
    /\ get_pc = "read"
    /\ pending = << >>
    /\ Return(-1, "EIO")
    /\ UNCHANGED << result_prefix, raw_buf, raw_lines, lines, result_line, c, rem,
                    in_newline, pending, hup, emitted, elapsed, oob >>
    /\ UNCHANGED << mainvars, flatvars >>

\* read(fd, c, 1) stored a CR or LF that ends the current line (lines 131-161).
ReadLineEnd ==
    /\ get_pc = "read"
    /\ pending # << >>
    /\ c \in Offsets
    /\ Head(pending) \in {CR, LF}
    /\ ~in_newline
    /\ LET buf == [raw_buf EXCEPT ![c] = NUL]
           start == raw_lines[lines]
           line == CStrOf(buf, start)
           tag == MatchTag(line)
       IN  /\ pending' = Tail(pending)
           /\ raw_buf' = buf
           /\ in_newline' = TRUE
           /\ IF buf[start] = "^"
              THEN \* Async reply: c = start; continue
                   /\ c' = start
                   /\ UNCHANGED << get_pc, lines, result_line, rem, get_res, get_errno >>
              ELSE /\ lines' = lines + 1
                   /\ result_line' =
                        IF /\ result_line = NULL
                           /\ result_prefix # NULLSTR
                           /\ StartsWith(line, result_prefix)
                        THEN start ELSE result_line
                   /\ IF tag # 0
                      THEN /\ Return(tag, get_errno)
                           /\ UNCHANGED << c, rem >>
                      ELSE /\ rem' = rem - 1
                           /\ c' = c + 1
                           /\ UNCHANGED << get_pc, get_res, get_errno >>
    /\ UNCHANGED << result_prefix, raw_lines, hup, emitted, elapsed, oob >>
    /\ UNCHANGED << mainvars, flatvars >>

\* A CR or LF after a line end: rxed = 0, the cursor does not move (lines 163-167).
ReadLineEndAgain ==
    /\ get_pc = "read"
    /\ pending # << >>
    /\ c \in Offsets
    /\ Head(pending) \in {CR, LF}
    /\ in_newline
    /\ pending' = Tail(pending)
    /\ raw_buf' = [raw_buf EXCEPT ![c] = Head(pending)]
    /\ UNCHANGED << get_pc, result_prefix, raw_lines, lines, result_line, c, rem,
                    in_newline, get_res, get_errno, hup, emitted, elapsed, oob >>
    /\ UNCHANGED << mainvars, flatvars >>

\* The first character of a line (lines 168-181).
ReadLineStart ==
    /\ get_pc = "read"
    /\ pending # << >>
    /\ c \in Offsets
    /\ Head(pending) \notin {CR, LF}
    /\ in_newline
    /\ pending' = Tail(pending)
    /\ raw_buf' = [raw_buf EXCEPT ![c] = Head(pending)]
    /\ IF lines = RawLinesLen - 1
       THEN /\ Return(-1, "ERANGE")
            /\ UNCHANGED << raw_lines, in_newline, rem, c >>
       ELSE /\ raw_lines' = [raw_lines EXCEPT ![lines] = c]
            /\ in_newline' = FALSE
            /\ rem' = rem - 1
            /\ c' = c + 1
            /\ UNCHANGED << get_pc, get_res, get_errno >>
    /\ UNCHANGED << result_prefix, lines, result_line, hup, emitted, elapsed, oob >>
    /\ UNCHANGED << mainvars, flatvars >>

\* A character halfway a line (lines 182-188).
ReadRegular ==
    /\ get_pc = "read"
    /\ pending # << >>
    /\ c \in Offsets
    /\ Head(pending) \notin {CR, LF}
    /\ ~in_newline
    /\ pending' = Tail(pending)
    /\ raw_buf' = [raw_buf EXCEPT ![c] = Head(pending)]
    /\ rem' = rem - 1
    /\ c' = c + 1
    /\ UNCHANGED << get_pc, result_prefix, raw_lines, lines, result_line,
                    in_newline, get_res, get_errno, hup, emitted, elapsed, oob >>
    /\ UNCHANGED << mainvars, flatvars >>

\* read(fd, c, 1) with c = raw_buf + lengthof(raw_buf): the inner loop does not test
\* rem, so the byte is stored in the member that follows raw_buf.  From there on the
\* behaviour is undefined; the outcomes followed are: one line start, or the result
\* line, is no longer what the code stored, or the call returns a value of its own.
ReadOverflow ==
    /\ get_pc = "read"
    /\ pending # << >>
    /\ c = RawBufLen
    /\ pending' = Tail(pending)
    /\ oob' = TRUE
    /\ get_pc' = "ub"
    /\ \/ /\ lines > 0
          /\ \E i \in 0..(lines - 1), o \in Offsets :
                raw_lines' = [raw_lines EXCEPT ![i] = o]
          /\ get_res' = -1
          /\ UNCHANGED result_line
       \/ /\ result_line' \in Offsets
          /\ get_res' = -1
          /\ UNCHANGED raw_lines
       \/ /\ get_res' \in {-1} \cup (1..Len(ttyresstr))
          /\ UNCHANGED << raw_lines, result_line >>
    /\ UNCHANGED << result_prefix, raw_buf, lines, c, rem, in_newline, get_errno,
                    hup, emitted, elapsed >>
    /\ UNCHANGED << mainvars, flatvars >>

(***************************************************************************)
(* udiald_tty_flatten_result, src/src/tty.c lines 75-94.                   *)
(***************************************************************************)
DQ == "\""

\* char *end = flat + lengthof(r->flat_buf) - 1 (line 77), as an offset into flat_buf.
FlatEnd == FlatBufLen - 1

\* if (flat != end) *flat++ = ch;  out is what flat_buf holds below flat.
PutCh(out, ch) == IF Len(out) # FlatEnd THEN Append(out, ch) ELSE out

\* Line 84: while (*in) if (flat != end) *flat++ = *in++;
\* Once flat has reached end with *in not NUL the body does nothing, in stays
\* where it is and the loop never ends.
RECURSIVE CopyLine(_, _)
CopyLine(out, in) ==
    IF in = << >> THEN [ returns |-> TRUE, out |-> out ]
    ELSE IF Len(out) # FlatEnd THEN CopyLine(Append(out, Head(in)), Tail(in))
    ELSE [ returns |-> FALSE, out |-> out ]

NotLast_Always(rd, i) == TRUE

\* Line 87: i != r->lines - 1.
NotLast(rd, i) ==
    i # rd.lines - 1

\* One pass of the for loop of line 79 for line i, and the passes after it.
RECURSIVE FlattenFrom(_, _, _)
FlattenFrom(rd, i, out) ==
    IF ~(i < rd.lines) THEN [ returns |-> TRUE, out |-> out ]
    ELSE LET open == PutCh(out, DQ)
             copy == CopyLine(open, rd.raw_lines[i + 1])
             close == PutCh(copy.out, DQ)
             sep == IF NotLast(rd, i) THEN PutCh(PutCh(close, ","), " ") ELSE close
         IN  IF ~copy.returns THEN copy
             ELSE IF Len(sep) = FlatEnd THEN [ returns |-> TRUE, out |-> sep ]
             ELSE FlattenFrom(rd, i + 1, sep)

\* The whole call: whether it returns, and the string flat_buf then holds in front
\* of the NUL of line 92.
udiald_tty_flatten_result(rd) == FlattenFrom(rd, 0, << >>)

\* No buffer is being flattened.
FlatIdle ==
    /\ flat_pc = "idle"
    /\ flat_r = [ lines |-> 0, raw_lines |-> << >> ]
    /\ flat_buf = << UNINIT >>
    /\ flat_calls = 0

\* udiald_tty_flatten_result(&flat_r) is called, for the first time or again.
Flatten ==
    /\ flat_pc \in { "call", "returned" }
    /\ flat_calls < MaxFlattens
    /\ LET res == udiald_tty_flatten_result(flat_r) IN
        /\ flat_pc' = IF res.returns THEN "returned" ELSE "hung"
        /\ flat_buf' = res.out
    /\ flat_calls' = flat_calls + 1
    /\ UNCHANGED flat_r
    /\ UNCHANGED << getvars, mainvars >>

(***************************************************************************)
(* The session: src/src/udiald.c.                                          *)
(***************************************************************************)
\* The return codes (the enum of udiald.h, as listed by udiald_usage).
UDIALD_OK == 0
UDIALD_EINVAL == 1
UDIALD_EINTERNAL == 2
UDIALD_ESIGNALED == 3
UDIALD_ENOMODEM == 4
UDIALD_EMODEM == 5
UDIALD_ESIM == 6
UDIALD_EUNLOCK == 7
UDIALD_EDIAL == 8
UDIALD_EAUTH == 9
UDIALD_EPPP == 10
UDIALD_ENETWORK == 11

SIGHUP == 1
SIGINT == 2
SIGTERM == 15
SIGCHLD == 17

\* The application modes that reach the session (dial and the two list modes
\* return from main before it, lines 788-795).
Apps == { "connect", "scan", "probe", "unlock", "pinpuk" }

\* No string: a null char pointer, or an option the store does not hold.
NOSTR == "(null)"

\* The characters of the strings used as PIN and PUK.
PinChars ==
    [ s \in { "", "12", "34", "1;", "3\r", "87", "8\"", "99", "9\n" } |->
        CASE s = ""    -> << >>
          [] s = "12"  -> << "1", "2" >>
          [] s = "34"  -> << "3", "4" >>
          [] s = "1;"  -> << "1", ";" >>
          [] s = "3\r" -> << "3", CR >>
          [] s = "87"  -> << "8", "7" >>
          [] s = "8\"" -> << "8", "\"" >>
          [] s = "99"  -> << "9", "9" >>
          [] s = "9\n" -> << "9", LF >> ]

\* The --pin arguments, the udiald_pin and failed_pin options tried.
PinArgs == { NOSTR, "12", "1;" }
PinOptions == { NOSTR, "", "12", "34", "3\r" }
FailedPins == { NOSTR, "12", "34" }
\* The command line tails of --unlock-puk: a PUK and a new PIN, or too few arguments.
PukArgs ==
    { [ n |-> 2, puk |-> "87", pin |-> "99" ],
      [ n |-> 2, puk |-> "8\"", pin |-> "99" ],
      [ n |-> 2, puk |-> "87", pin |-> "9\n" ],
      [ n |-> 1, puk |-> "87", pin |-> NOSTR ] }
NoPukArgs == [ n |-> 0, puk |-> NOSTR, pin |-> NOSTR ]

\* strpbrk that does not look for the semicolon.
strpbrk_NoSemicolon(s) == \E k \in 1..Len(PinChars[s]) : PinChars[s][k] \in { "\"", CR, LF }

\* strpbrk(s, "\"\r\n;") != NULL
strpbrk(s) == \E k \in 1..Len(PinChars[s]) : PinChars[s][k] \in { "\"", CR, LF, ";" }

(***************************************************************************)
(* The profile table of deviceconfig.h: modecmd by mode, NOSTR where the   *)
(* initializer leaves the pointer null.                                    *)
(***************************************************************************)
Modes == << "auto", "force-umts", "force-gprs", "prefer-umts", "prefer-gprs" >>

ModeCmd(a, fu, fg, pu, pg) == << a, fu, fg, pu, pg >>

HuaweiCmds ==
    ModeCmd("AT^SYSCFG=2,2,40000000,2,4\r", "AT^SYSCFG=14,2,40000000,2,4\r",
            "AT^SYSCFG=13,1,40000000,2,4\r", "AT^SYSCFG=2,2,40000000,2,4\r",
            "AT^SYSCFG=2,1,40000000,2,4\r")

OnlyAutoEmpty == ModeCmd("", NOSTR, NOSTR, NOSTR, NOSTR)

\* An unset vendor or device is 0 and an unset driver is NOSTR; the ids are the
\* hexadecimal ids of the table, in decimal.
Ericsson_F3705G ==
    [ name |-> "Ericsson F3705G", vendor |-> 3035, device |-> 6400, driver |-> NOSTR,
      ctlidx |-> 1, datidx |-> 0,
      modecmd |-> ModeCmd("AT+CFUN=1\r", "AT+CFUN=6\r", "AT+CFUN=5\r", NOSTR, NOSTR) ]
Alcatel_X060s ==
    [ name |-> "Alcatel X060s", vendor |-> 7099, device |-> 0, driver |-> NOSTR,
      ctlidx |-> 1, datidx |-> 2, modecmd |-> OnlyAutoEmpty ]
Huawei_K3520 ==
    [ name |-> "Huawei K3520", vendor |-> 4817, device |-> 4097, driver |-> NOSTR,
      ctlidx |-> 2, datidx |-> 0, modecmd |-> HuaweiCmds ]
Huawei_E173 ==
    [ name |-> "Huawei E173", vendor |-> 4817, device |-> 5171, driver |-> NOSTR,
      ctlidx |-> 2, datidx |-> 0, modecmd |-> HuaweiCmds ]
Huawei_generic ==
    [ name |-> "Huawei generic", vendor |-> 4817, device |-> 0, driver |-> NOSTR,
      ctlidx |-> 1, datidx |-> 0, modecmd |-> HuaweiCmds ]
ZTE_generic ==
    [ name |-> "ZTE generic", vendor |-> 6610, device |-> 0, driver |-> NOSTR,
      ctlidx |-> 1, datidx |-> 2,
      modecmd |-> ModeCmd("AT+ZSNT=0,0,0\r", "AT+ZSNT=2,0,0\r", "AT+ZSNT=1,0,0\r",
                          "AT+ZSNT=0,0,2\r", "AT+ZSNT=0,0,1\r") ]
Option_generic ==
    [ name |-> "Option generic", vendor |-> 0, device |-> 0, driver |-> "option",
      ctlidx |-> 1, datidx |-> 0, modecmd |-> OnlyAutoEmpty ]
Sierra_generic ==
    [ name |-> "Sierra generic", vendor |-> 0, device |-> 0, driver |-> "sierra",
      ctlidx |-> 0, datidx |-> 2, modecmd |-> OnlyAutoEmpty ]
HSO_generic ==
    [ name |-> "HSO generic", vendor |-> 0, device |-> 0, driver |-> "hso",
      ctlidx |-> 0, datidx |-> 3,
      modecmd |-> ModeCmd("at_opsys=2,2\r", "at_opsys=1,2\r", "at_opsys=0,2\r",
                          "at_opsys=2,2\r", "at_opsys=3,2\r") ]
CDC_generic ==
    [ name |-> "CDC generic", vendor |-> 0, device |-> 0, driver |-> "cdc_acm",
      ctlidx |-> 1, datidx |-> 0, modecmd |-> OnlyAutoEmpty ]
USB_serial_generic ==
    [ name |-> "USB serial generic", vendor |-> 0, device |-> 0,
      driver |-> "usbserial", ctlidx |-> 0, datidx |-> 2, modecmd |-> OnlyAutoEmpty ]

\* A table that lists the vendor's generic profile before its devices.
profiles_GenericFirst ==
    << Ericsson_F3705G, Alcatel_X060s, Huawei_generic, Huawei_K3520, Huawei_E173,
       ZTE_generic, Option_generic, Sierra_generic, HSO_generic, CDC_generic,
       USB_serial_generic >>

\* The table profiles[], in its order.
profiles ==
    << Ericsson_F3705G, Alcatel_X060s, Huawei_K3520, Huawei_E173, Huawei_generic,
       ZTE_generic, Option_generic, Sierra_generic, HSO_generic, CDC_generic,
       USB_serial_generic >>

\* The profiles discovery binds in the runs followed: one with three modes, one
\* with an empty command, one with all five.
Candidates == { 1, 2, 3 }

\* The udiald_mode options tried.
ModeOptions == { NOSTR, "force-umts", "prefer-gprs", "edge" }

\* udiald_modem_modeval: the index of a mode name, -1 for an unknown name.
udiald_modem_modeval(m) ==
    IF \E i \in 1..Len(Modes) : Modes[i] = m
    THEN CHOOSE i \in 1..Len(Modes) : Modes[i] = m
    ELSE -1


(***************************************************************************)
(* The config store.  The options of the network's section are reached by  *)
(* udiald_config_get/set/revert; failed_pin is read and written in the     *)
(* section UCI_SECTION_GLOBAL by ucix_get_option and ucix_add_option.      *)
(***************************************************************************)
\* A store that holds what the user configured and no status of a former run.
FreshStore(upin, failed, mode, err) ==
    [ udiald_pin |-> upin, udiald_mode |-> mode, udiald_error |-> err,
      global_failed_pin |-> failed, failed_pin |-> NOSTR,
      sim_state |-> NOSTR, udiald_error_code |-> 0, udiald_error_msg |-> NOSTR,
      udiald_state |-> NOSTR, connected |-> NOSTR, pid |-> NOSTR, modem_gsm |-> NOSTR ]

\* udiald_config_revert(state, key): the option key of the network's section is
\* dropped from the state store.
udiald_config_revert(u, key) ==
    [ u EXCEPT ![key] = IF key = "udiald_error_code" THEN 0 ELSE NOSTR ]

\* An AT command as written to the line: the command and what is filled in.
At(cmd) == [ cmd |-> cmd, a |-> NOSTR, b |-> NOSTR ]
\* snprintf(b, sizeof(b), "AT+CPIN=\"%s\"\r", pin)
CpinCmd(p) == [ cmd |-> "AT+CPIN=\"%s\"\r", a |-> p, b |-> NOSTR ]
\* snprintf(b, sizeof(b), "AT+CPIN=\"%s\",\"%s\"\r", puk, pin)
CpukCmd(puk, p) == [ cmd |-> "AT+CPIN=\"%s\",\"%s\"\r", a |-> puk, b |-> p ]

\* The commands of udiald_probe, in order.
ProbeCmds ==
    << "ATI", "AT+GMI", "AT^HWVER", "AT+CGMR", "AT+GMM", "AT+GMR", "AT^CARDLOCK?",
       "AT+GCAP", "AT+CLCK=\"SC\",2", "AT+CLCK=?", "AT+CFUN?", "AT+CFUN=?",
       "AT+CGDCONT?", "AT+CGDCONT=?", "AT+CREG?", "AT+CGREG?", "AT+CEREG?",
       "AT!SELRAT=?", "AT+ZSNT?", "AT^SYSCFG?", "AT^SYSCFGEX?", "AT^SYSCFGEX=?",
       "AT^PREFMODE?", "AT+COPS?", "AT+COPS=?" >>

\* udiald_tty_put: the write succeeds only on an open descriptor; what is written
\* to an open line is on the line, whatever write() returns.
PutCan(ok) == ok => ctlfd = 1
\* The count of puts since the last get, after one more put and after a get.
AfterPut(n) == IF n = 0 THEN 1 ELSE 2
AfterGet(n) == IF n = 2 THEN 2 ELSE 0
Put(cmd) ==
    /\ sent' = IF ctlfd = 1 THEN sent \cup { cmd } ELSE sent
    /\ unread' = AfterPut(unread)
\* udiald_tty_get is called on the control line.
Get == unread' = AfterGet(unread)
ctlline == << sent, unread >>

\* udiald_tty_get on the control line, as the session sees it: the value returned
\* (a tag, or -1), r.lines, and the result line.  On a closed descriptor poll() finds
\* nothing to wait for and the call fails.
GetCan(res) == res # -1 => ctlfd = 1
\* A tag other than OK.
UDIALD_AT_ERROR == 3
GetResults == { UDIALD_AT_OK, UDIALD_AT_ERROR, -1 }

args == << app, flag_teststate, pin, pukargs >>
sigs == << flag_signaled, signaled, handler, catching, interrupted >>
child == << pppd, pppd_status >>

\* A struct udiald_tty_read that is not in scope, and the modem while none is
\* looked up.
NoRead == [ res |-> 0, rl |-> NOSTR ]
NoModem == [ vendor |-> 0, device |-> 0, driver |-> NOSTR ]

\* exit(): the atexit hook udiald_cleanup closes the control line.
exit(code) ==
    /\ pc' = "exited"
    /\ exit_code' = code
    /\ ctlfd' = IF ctlfd > 0 THEN -1 ELSE ctlfd

\* A udiald_exitcode that passes its code on whatever the flags are.
CodeAtExit_NoOverride(code) == code

\* udiald_exitcode, lines 123-124: the code the process exits with.
CodeAtExit(code) ==
    IF code # UDIALD_OK /\ flag_signaled THEN UDIALD_ESIGNALED ELSE code

\* A udiald_exitcode that writes the error but leaves udiald_state alone.
StoreAtExit_NoState(u, code, fmt) ==
    IF CodeAtExit(code) # UDIALD_OK /\ CodeAtExit(code) # UDIALD_ESIGNALED
    THEN [ u EXCEPT !.udiald_error_code = CodeAtExit(code),
                    !.udiald_error_msg = IF fmt THEN "set" ELSE NOSTR ]
    ELSE u

\* udiald_exitcode, lines 125-146: the store u as it is saved.
StoreAtExit(u, code, fmt) ==
    LET code1 == CodeAtExit(code)
        u1 == IF code1 # UDIALD_OK /\ code1 # UDIALD_ESIGNALED
              THEN [ u EXCEPT !.udiald_error_code = code1,
                              !.udiald_error_msg = IF fmt THEN "set" ELSE NOSTR ]
              ELSE u
    IN  IF app = "connect"
        THEN [ u1 EXCEPT !.udiald_state = IF code1 # UDIALD_OK THEN "error" ELSE NOSTR ]
        ELSE u1

\* udiald_exitcode(code, fmt, ...) called with the store u in memory.
udiald_exitcode(u, code, fmt) ==
    /\ uci' = StoreAtExit(u, code, fmt)
    /\ saved' = uci'
    /\ exit(CodeAtExit(code))

\* The process goes on at position next with the store u in memory.
Goto(next, u) ==
    /\ pc' = next
    /\ uci' = u
    /\ UNCHANGED << saved, exit_code, ctlfd >>

\* The process dies of a fault: nothing is saved, no exit code is set.
Crash ==
    /\ pc' = "crashed"
    /\ UNCHANGED << uci, saved, exit_code, ctlfd >>

\* udiald_tty_flatten_result(&r) for an r that udiald_tty_get never filled: the
\* line count and the line starts are whatever the stack held.  The call either
\* comes back with some string or faults.
FlattenUninit == { "returns", "faults" }

(***************************************************************************)
(* main, after the safe cleanup handler is installed (line 785).           *)
(***************************************************************************)
\* The process as main finds it at line 797, for the given command line.
Process(a, t, p, pa) ==
    /\ pc = "teststate"
    /\ app = a
    /\ flag_teststate = t
    /\ pin = p
    /\ pukargs = pa
    /\ flag_signaled = FALSE
    /\ signaled = 0
    /\ catching = << >>
    /\ interrupted = "none"
    /\ handler = [ sig \in { SIGHUP, SIGINT, SIGTERM, SIGCHLD } |->
                     IF sig = SIGCHLD THEN "default" ELSE "safe" ]
    /\ ctlfd = 0
    /\ sim_state = 0
    /\ is_gsm = FALSE
    /\ profile = 0
    /\ status = -1
    /\ probe_i = 1
    /\ exit_code = -1
    /\ sent = { }
    /\ unread = 0
    /\ r = NoRead
    /\ modem = NoModem
    /\ pppd = "none"
    /\ pppd_status = [ signaled |-> FALSE, exit |-> 0 ]
    /\ done = << >>

\* The command lines followed: options that a mode never reads keep one value.
CmdLines ==
    { cl \in [ app : Apps, t : BOOLEAN, pin : PinArgs, pa : PukArgs \cup { NoPukArgs } ] :
        /\ (cl.app = "pinpuk") = (cl.pa # NoPukArgs)
        /\ cl.t => cl.app = "connect" /\ cl.pin = NOSTR
        /\ cl.pin # NOSTR => cl.app \in { "connect", "unlock", "probe" } }

\* The store as a connect run left it that found the SIM wanting a PIN and had
\* none: udiald_exitcode(UDIALD_EUNLOCK, ...) saved the code, a message and the
\* state error.
LeftByUnlock ==
    [ FreshStore(NOSTR, NOSTR, NOSTR, UDIALD_OK) EXCEPT
        !.sim_state = "wantpin", !.udiald_error_code = UDIALD_EUNLOCK,
        !.udiald_error_msg = "set", !.udiald_state = "error" ]

\* The stores followed.
Stores ==
    { FreshStore(upin, failed, mode, err) :
        upin \in PinOptions, failed \in FailedPins, mode \in ModeOptions,
        err \in { UDIALD_OK, UDIALD_EUNLOCK } } \cup { LeftByUnlock }

MainInit ==
    /\ \E cl \in CmdLines : Process(cl.app, cl.t, cl.pin, cl.pa)
    /\ saved \in { st \in Stores :
                     /\ st.udiald_mode # NOSTR =>
                            /\ app = "connect" /\ pin = NOSTR
                            /\ st.udiald_pin = "12" /\ st.global_failed_pin = NOSTR
                     /\ st.udiald_error # UDIALD_OK => flag_teststate
                     /\ st.udiald_error_code # 0 => app = "connect" /\ flag_teststate
                     /\ flag_teststate =>
                            st.udiald_pin = NOSTR /\ st.global_failed_pin = NOSTR
                     /\ st.udiald_pin # NOSTR =>
                            app \in { "connect", "unlock", "probe" } /\ pin = NOSTR
                     /\ st.global_failed_pin # NOSTR =>
                            app \in { "connect", "unlock", "probe" } }
    /\ uci = saved

\* Lines 797-803: -t refuses to connect after a SIM unlocking failure.
TestState ==
    /\ pc = "teststate"
    /\ IF app = "connect" /\ flag_teststate /\ uci.udiald_error = UDIALD_EUNLOCK
       THEN /\ exit(UDIALD_EUNLOCK)
            /\ UNCHANGED << uci, saved >>
       ELSE Goto("reset_state", uci)
    /\ UNCHANGED << args, sigs, child, sim_state, is_gsm, profile, status, probe_i,
                    ctlline, done >>
    /\ UNCHANGED << r, modem, getvars, flatvars >>

RevertAll(u, keys) ==
    [ k \in DOMAIN u |-> IF k \in keys THEN udiald_config_revert(u, k)[k] ELSE u[k] ]

\* Lines 805-818: reset state.
ResetState ==
    /\ pc = "reset_state"
    /\ LET u == RevertAll(uci, { "modem_gsm", "sim_state", "udiald_error_code",
                                 "udiald_error_msg" })
       IN  IF app = "connect"
           THEN /\ pc' = "select_modem"
                /\ uci' = [ u EXCEPT !.udiald_state = "init" ]
                /\ saved' = uci'
                /\ UNCHANGED << exit_code, ctlfd >>
           ELSE Goto("select_modem", u)
    /\ UNCHANGED << args, sigs, child, sim_state, is_gsm, profile, status, probe_i,
                    ctlline, done >>
    /\ UNCHANGED << r, modem, getvars, flatvars >>

\* udiald_select_modem: discovery fails with e, or binds profile p.
SelectModem(e, p) ==
    /\ pc = "select_modem"
    /\ IF e # UDIALD_OK
       THEN /\ udiald_exitcode(uci, e, TRUE)
            /\ UNCHANGED << profile, done >>
       ELSE /\ Goto("open_control", uci)
            /\ profile' = p
            /\ done' = Append(done, "select_modem")
    /\ UNCHANGED << args, sigs, child, sim_state, is_gsm, status, probe_i, ctlline >>
    /\ UNCHANGED << r, modem, getvars, flatvars >>

\* udiald_open_control: state->ctlfd is what open() gave.
OpenControl(ok) ==
    /\ pc = "open_control"
    /\ IF ok
       THEN /\ pc' = "reset_put"
            /\ ctlfd' = 1
            /\ done' = Append(done, "open_control")
            /\ UNCHANGED << uci, saved, exit_code >>
       ELSE \* the -1 is stored in state->ctlfd before udiald_exitcode is called
            /\ uci' = StoreAtExit(uci, UDIALD_EMODEM, TRUE)
            /\ saved' = uci'
            /\ pc' = "exited"
            /\ exit_code' = CodeAtExit(UDIALD_EMODEM)
            /\ ctlfd' = -1
            /\ UNCHANGED done
    /\ UNCHANGED << args, sigs, child, sim_state, is_gsm, profile, status, probe_i,
                    ctlline >>
    /\ UNCHANGED << r, modem, getvars, flatvars >>

\* udiald_modem_reset, line 373: the result of the put is not looked at.
ResetPut ==
    /\ pc = "reset_put"
    /\ Put(At("ATE0\r"))
    /\ Goto("reset_get", uci)
    /\ UNCHANGED << args, sigs, child, sim_state, is_gsm, profile, status, probe_i,
                    done >>
    /\ UNCHANGED << r, modem, getvars, flatvars >>

\* udiald_modem_reset, line 374: the response is discarded.
ResetGet ==
    /\ pc = "reset_get"
    /\ Get
    /\ Goto("identify_put", uci)
    /\ done' = Append(done, "reset")
    /\ UNCHANGED << args, sigs, child, sim_state, is_gsm, profile, status, probe_i,
                    sent >>
    /\ UNCHANGED << r, modem, getvars, flatvars >>

\* udiald_identify, line 385.
IdentifyPut(ok) ==
    /\ pc = "identify_put"
    /\ PutCan(ok)
    /\ Put(At("AT+CGMI;+CGMM\r"))
    /\ IF ok
       THEN Goto("identify_get", uci)
       ELSE udiald_exitcode(uci, UDIALD_EMODEM, TRUE)
    /\ UNCHANGED << args, sigs, child, sim_state, is_gsm, profile, status, probe_i,
                    done >>
    /\ UNCHANGED << r, modem, getvars, flatvars >>

\* udiald_identify, lines 386-392.
IdentifyGet(res, nlines) ==
    /\ pc = "identify_get"
    /\ Get
    /\ GetCan(res)
    /\ IF res # UDIALD_AT_OK \/ nlines < 3
       THEN /\ udiald_exitcode(uci, UDIALD_EMODEM, TRUE)
            /\ UNCHANGED done
       ELSE /\ Goto("check_sim_put", uci)
            /\ done' = Append(done, "identify")
    /\ UNCHANGED << args, sigs, child, sim_state, is_gsm, profile, status, probe_i,
                    sent >>
    /\ UNCHANGED << r, modem, getvars, flatvars >>

\* The result lines a modem may give to AT+CPIN?.
SimLines == { "+CPIN: READY", "+CPIN: SIM PIN", "+CPIN: SIM PUK", "+CPIN: PH-SIM PIN" }

\* A udiald_check_sim that only notes the error state and returns, in every mode.
CheckSimFailed_Returns ==
    /\ sim_state' = -1
    /\ Goto("after_sim", [ uci EXCEPT !.sim_state = "error" ])
    /\ done' = Append(done, "check_sim")

\* udiald_check_sim, lines 486-491: the SIM status could not be read.
CheckSimFailed ==
    LET u == [ uci EXCEPT !.sim_state = "error" ]
    IN  /\ sim_state' = -1
        /\ IF app # "probe"
           THEN /\ udiald_exitcode(u, UDIALD_ESIM, TRUE)
                /\ UNCHANGED done
           ELSE /\ Goto("after_sim", u)
                /\ done' = Append(done, "check_sim")

\* udiald_check_sim, line 483.  When the put fails, line 486 flattens an r that
\* was never filled.
CheckSimPut(ok, fl) ==
    /\ pc = "check_sim_put"
    /\ PutCan(ok)
    /\ Put(At("AT+CPIN?\r"))
    /\ IF ok
       THEN /\ Goto("check_sim_get", uci)
            /\ UNCHANGED << sim_state, done >>
       ELSE IF fl = "faults"
            THEN /\ Crash
                 /\ UNCHANGED << sim_state, done >>
            ELSE CheckSimFailed
    /\ UNCHANGED << args, sigs, child, is_gsm, profile, status, probe_i >>
    /\ UNCHANGED << r, modem, getvars, flatvars >>

\* udiald_check_sim, line 484: the get fills r.
CheckSimGet(res, rl) ==
    /\ pc = "check_sim_get"
    /\ GetCan(res)
    /\ Get
    /\ r' = [ res |-> res, rl |-> rl ]
    /\ Goto("check_sim_test", uci)
    /\ UNCHANGED << args, sigs, child, sim_state, is_gsm, profile, status, probe_i,
                    sent, done >>
    /\ UNCHANGED << modem, getvars, flatvars >>

\* udiald_check_sim, lines 484-514: what is made of r.
CheckSimTest ==
    /\ pc = "check_sim_test"
    /\ IF r.res # UDIALD_AT_OK \/ r.rl = NOSTR
       THEN CheckSimFailed
       ELSE IF r.rl = "+CPIN: READY"
       THEN /\ sim_state' = 0
            /\ Goto("after_sim", [ uci EXCEPT !.sim_state = "ready" ])
            /\ done' = Append(done, "check_sim")
       ELSE IF r.rl = "+CPIN: SIM PIN"
       THEN /\ sim_state' = 1
            /\ Goto("after_sim", [ uci EXCEPT !.sim_state = "wantpin" ])
            /\ done' = Append(done, "check_sim")
       ELSE IF r.rl = "+CPIN: SIM PUK"
       THEN /\ sim_state' = 2
            /\ Goto("after_sim", [ uci EXCEPT !.sim_state = "wantpuk" ])
            /\ done' = Append(done, "check_sim")
       ELSE CheckSimFailed
    /\ r' = NoRead
    /\ UNCHANGED << args, sigs, child, is_gsm, profile, status, probe_i, ctlline >>
    /\ UNCHANGED << modem, getvars, flatvars >>

\* main, lines 830-839.
AfterSim ==
    /\ pc = "after_sim"
    /\ IF app = "scan"
       THEN udiald_exitcode(uci, UDIALD_OK, FALSE)
       ELSE IF app = "pinpuk"
       THEN IF pukargs.n # 2
            THEN udiald_exitcode(uci, UDIALD_EINVAL, TRUE)
            ELSE Goto("enter_puk", uci)
       ELSE Goto("enter_pin", uci)
    /\ UNCHANGED << args, sigs, child, sim_state, is_gsm, profile, status, probe_i,
                    ctlline, done >>
    /\ UNCHANGED << r, modem, getvars, flatvars >>

\* An enter-PUK that does not look at state->sim_state.
EnterPukPut_NoLockTest(ok) ==
    /\ pc = "enter_puk"
    /\ IF strpbrk(pukargs.pin) \/ strpbrk(pukargs.puk)
       THEN /\ udiald_exitcode(uci, UDIALD_EINVAL, TRUE)
            /\ UNCHANGED ctlline
       ELSE /\ PutCan(ok)
            /\ Put(CpukCmd(pukargs.puk, pukargs.pin))
            /\ IF ok
               THEN Goto("enter_puk_get", uci)
               ELSE udiald_exitcode(uci, UDIALD_EUNLOCK, TRUE)
    /\ UNCHANGED << args, sigs, child, sim_state, is_gsm, profile, status, probe_i,
                    done >>
    /\ UNCHANGED << r, modem, getvars, flatvars >>

\* udiald_enter_puk, lines 528-540.
EnterPukPut(ok) ==
    /\ pc = "enter_puk"
    /\ IF sim_state # 2
       THEN /\ udiald_exitcode(uci, UDIALD_ESIM, TRUE)
            /\ UNCHANGED ctlline
       ELSE IF strpbrk(pukargs.pin) \/ strpbrk(pukargs.puk)
       THEN /\ udiald_exitcode(uci, UDIALD_EINVAL, TRUE)
            /\ UNCHANGED ctlline
       ELSE /\ PutCan(ok)
            /\ Put(CpukCmd(pukargs.puk, pukargs.pin))
            /\ IF ok
               THEN Goto("enter_puk_get", uci)
               ELSE udiald_exitcode(uci, UDIALD_EUNLOCK, TRUE)
    /\ UNCHANGED << args, sigs, child, sim_state, is_gsm, profile, status, probe_i,
                    done >>
    /\ UNCHANGED << r, modem, getvars, flatvars >>

\* udiald_enter_puk, lines 541-547.
EnterPukGet(res) ==
    /\ pc = "enter_puk_get"
    /\ Get
    /\ GetCan(res)
    /\ IF res = UDIALD_AT_OK
       THEN udiald_exitcode([ uci EXCEPT !.sim_state = "ready" ], UDIALD_OK, FALSE)
       ELSE udiald_exitcode(uci, UDIALD_EUNLOCK, TRUE)
    /\ UNCHANGED << args, sigs, child, sim_state, is_gsm, profile, status, probe_i,
                    sent, done >>
    /\ UNCHANGED << r, modem, getvars, flatvars >>

\* The PIN udiald_enter_pin uses: --pin, else the option udiald_pin (lines 557-559).
CandidatePin == IF pin # NOSTR THEN pin ELSE uci.udiald_pin

\* udiald_enter_pin gives up: the process ends with code, or in probe mode goes on.
PinGiveUp(u, code) ==
    IF app # "probe"
    THEN udiald_exitcode(u, code, TRUE)
    ELSE Goto("after_pin", u)

\* The code udiald_enter_pin ends with when the PIN is the one that failed before.
FailedPinCode == UDIALD_ESIM

\* main, line 841, and udiald_enter_pin, lines 557-604 up to the put.
EnterPinPut(ok, fl) ==
    /\ pc = "enter_pin"
    /\ IF sim_state # 1
       THEN /\ Goto("after_pin", uci)
            /\ UNCHANGED ctlline
       ELSE IF CandidatePin = NOSTR \/ PinChars[CandidatePin] = << >>
       THEN /\ PinGiveUp(uci, UDIALD_EUNLOCK)
            /\ UNCHANGED ctlline
       ELSE IF strpbrk(CandidatePin)
       THEN /\ PinGiveUp(uci, UDIALD_EINVAL)
            /\ UNCHANGED ctlline
       ELSE IF uci.global_failed_pin # NOSTR /\ CandidatePin = uci.global_failed_pin
       THEN /\ PinGiveUp(uci, FailedPinCode)
            /\ UNCHANGED ctlline
       ELSE LET u == udiald_config_revert(uci, "failed_pin")
            IN  /\ PutCan(ok)
                /\ Put(CpinCmd(CandidatePin))
                /\ IF ok
                   THEN Goto("enter_pin_get", u)
                   ELSE \* line 597, then the flatten of an r never filled
                        IF fl = "faults"
                        THEN /\ pc' = "crashed"
                             /\ uci' = [ u EXCEPT !.global_failed_pin = CandidatePin ]
                             /\ UNCHANGED << saved, exit_code, ctlfd >>
                        ELSE PinGiveUp([ u EXCEPT !.global_failed_pin = CandidatePin ],
                                       UDIALD_EUNLOCK)
    /\ UNCHANGED << args, sigs, child, sim_state, is_gsm, profile, status, probe_i,
                    done >>
    /\ UNCHANGED << r, modem, getvars, flatvars >>

\* udiald_enter_pin, lines 596-614.
EnterPinGet(res) ==
    /\ pc = "enter_pin_get"
    /\ Get
    /\ GetCan(res)
    /\ IF res # UDIALD_AT_OK
       THEN /\ PinGiveUp([ uci EXCEPT !.global_failed_pin = CandidatePin ], UDIALD_EUNLOCK)
            /\ UNCHANGED done
       ELSE /\ Goto("after_pin", [ uci EXCEPT !.sim_state = "ready" ])
            /\ done' = Append(done, "enter_pin")
    /\ UNCHANGED << args, sigs, child, sim_state, is_gsm, profile, status, probe_i,
                    sent >>
    /\ UNCHANGED << r, modem, getvars, flatvars >>

\* main, lines 844-853.
AfterPin ==
    /\ pc = "after_pin"
    /\ IF app = "unlock"
       THEN udiald_exitcode(uci, UDIALD_OK, FALSE)
       ELSE IF app = "probe"
       THEN Goto("probe_put", uci)
       ELSE IF sim_state = 2
       THEN udiald_exitcode(uci, UDIALD_EUNLOCK, TRUE)
       ELSE Goto("check_caps_put", uci)
    /\ UNCHANGED << args, sigs, child, sim_state, is_gsm, profile, status, probe_i,
                    ctlline, done >>
    /\ UNCHANGED << r, modem, getvars, flatvars >>

\* udiald_probe_cmd for the command probe_i; udiald_probe and main, lines 848-849.
\* A put that fails leaves r unfilled for the flatten of line 402.
udiald_probe_cmd(ok, fl) ==
    /\ pc = "probe_put"
    /\ PutCan(ok)
    /\ sent' = IF ctlfd = 1 THEN sent \cup { At(ProbeCmds[probe_i]) } ELSE sent
    /\ unread' = IF ok THEN AfterGet(AfterPut(unread)) ELSE AfterPut(unread)
    /\ IF ~ok /\ fl = "faults"
       THEN /\ Crash
            /\ UNCHANGED probe_i
       ELSE IF probe_i < Len(ProbeCmds)
       THEN /\ Goto("probe_put", uci)
            /\ probe_i' = probe_i + 1
       ELSE /\ udiald_exitcode(uci, UDIALD_OK, FALSE)
            /\ UNCHANGED probe_i
    /\ UNCHANGED << args, sigs, child, sim_state, is_gsm, profile, status, done >>
    /\ UNCHANGED << r, modem, getvars, flatvars >>

\* A main that goes on to save the pid whatever udiald_check_caps found.
AfterCaps_NoSetMode(gsm) == "save_pid"

\* The position of main after udiald_check_caps (line 866).
AfterCaps(gsm) == IF gsm THEN "set_mode" ELSE "save_pid"

\* udiald_check_caps, lines 622-623.
CheckCapsPut(ok) ==
    /\ pc = "check_caps_put"
    /\ PutCan(ok)
    /\ Put(At("AT+GCAP\r"))
    /\ is_gsm' = FALSE
    /\ IF ok
       THEN /\ Goto("check_caps_get", uci)
            /\ UNCHANGED done
       ELSE /\ Goto(AfterCaps(FALSE), uci)
            /\ done' = Append(done, "check_caps")
    /\ UNCHANGED << args, sigs, child, sim_state, profile, status, probe_i >>
    /\ UNCHANGED << r, modem, getvars, flatvars >>

\* The result lines a modem may give to AT+GCAP, and whether CGSM is in them.
CapLines == { "+GCAP: +CGSM,+DS,+ES", "+GCAP: +CIS707-A" }
strstrCGSM(rl) == rl = "+GCAP: +CGSM,+DS,+ES"

\* udiald_check_caps, lines 624-631.
CheckCapsGet(res, rl) ==
    /\ pc = "check_caps_get"
    /\ Get
    /\ GetCan(res)
    /\ LET gsm == res = UDIALD_AT_OK /\ rl # NOSTR /\ strstrCGSM(rl)
       IN  /\ is_gsm' = gsm
           /\ Goto(AfterCaps(gsm), IF gsm THEN [ uci EXCEPT !.modem_gsm = "1" ] ELSE uci)
    /\ done' = Append(done, "check_caps")
    /\ UNCHANGED << args, sigs, child, sim_state, profile, status, probe_i, sent >>
    /\ UNCHANGED << r, modem, getvars, flatvars >>

\* udiald_set_mode, line 642: the mode asked for.
ModeAsked ==
    udiald_modem_modeval(IF uci.udiald_mode # NOSTR /\ uci.udiald_mode # ""
                         THEN uci.udiald_mode ELSE "auto")

\* udiald_set_mode, lines 641-654 up to the put.
SetModePut(ok, fl) ==
    /\ pc = "set_mode"
    /\ IF ModeAsked = -1 \/ profiles[profile].modecmd[ModeAsked] = NOSTR
       THEN /\ udiald_exitcode(uci, UDIALD_EINVAL, TRUE)
            /\ UNCHANGED << ctlline, done >>
       ELSE IF profiles[profile].modecmd[ModeAsked] = ""
       THEN /\ Goto("save_pid", uci)
            /\ done' = Append(done, "set_mode")
            /\ UNCHANGED ctlline
       ELSE /\ PutCan(ok)
            /\ Put(At(profiles[profile].modecmd[ModeAsked]))
            /\ UNCHANGED done
            /\ IF ok
               THEN Goto("set_mode_get", uci)
               ELSE IF fl = "faults"
               THEN Crash
               ELSE udiald_exitcode(uci, UDIALD_EMODEM, TRUE)
    /\ UNCHANGED << args, sigs, child, sim_state, is_gsm, profile, status, probe_i >>
    /\ UNCHANGED << r, modem, getvars, flatvars >>

\* udiald_set_mode, line 650: the get fills r.
SetModeGet(res) ==
    /\ pc = "set_mode_get"
    /\ GetCan(res)
    /\ Get
    /\ r' = [ res |-> res, rl |-> NOSTR ]
    /\ Goto("set_mode_test", uci)
    /\ UNCHANGED << args, sigs, child, sim_state, is_gsm, profile, status, probe_i,
                    sent, done >>
    /\ UNCHANGED << modem, getvars, flatvars >>

\* udiald_set_mode, lines 650-656: what is made of r.
SetModeTest ==
    /\ pc = "set_mode_test"
    /\ IF r.res # UDIALD_AT_OK
       THEN /\ udiald_exitcode(uci, UDIALD_EMODEM, TRUE)
            /\ UNCHANGED done
       ELSE /\ Goto("save_pid", uci)
            /\ done' = Append(done, "set_mode")
    /\ r' = NoRead
    /\ UNCHANGED << args, sigs, child, sim_state, is_gsm, profile, status, probe_i,
                    ctlline >>
    /\ UNCHANGED << modem, getvars, flatvars >>

\* The process goes on at position next after ucix_save of the store u.
Save(next, u) ==
    /\ pc' = next
    /\ uci' = u
    /\ saved' = u
    /\ UNCHANGED << exit_code, ctlfd >>

\* main, lines 873-874.
SavePid ==
    /\ pc = "save_pid"
    /\ Save("sigaction_term", [ uci EXCEPT !.pid = "getpid" ])
    /\ UNCHANGED << args, sigs, child, sim_state, is_gsm, profile, status, probe_i,
                    ctlline, done >>
    /\ UNCHANGED << r, modem, getvars, flatvars >>

\* main, lines 877-881: the signals in the order their handler is replaced, and
\* the position of main before each sigaction call.
SigOrder == << SIGTERM, SIGINT, SIGHUP, SIGCHLD >>
SigPc == << "sigaction_term", "sigaction_int", "sigaction_hup", "sigaction_chld" >>

Sigaction(k) ==
    /\ pc = SigPc[k]
    /\ handler' = [ handler EXCEPT ![SigOrder[k]] = "catch" ]
    /\ Goto(IF k < Len(SigPc) THEN SigPc[k + 1] ELSE "set_dial", uci)
    /\ UNCHANGED << args, flag_signaled, signaled, catching, interrupted, child, sim_state,
                    is_gsm, profile, status, probe_i, ctlline, done >>
    /\ UNCHANGED << r, modem, getvars, flatvars >>

\* main, lines 883-886.
SetDial ==
    /\ pc = "set_dial"
    /\ IF app = "connect"
       THEN Save("launch", [ uci EXCEPT !.udiald_state = "dial" ])
       ELSE Goto("launch", uci)
    /\ UNCHANGED << args, sigs, child, sim_state, is_gsm, profile, status, probe_i,
                    ctlline, done >>
    /\ UNCHANGED << r, modem, getvars, flatvars >>

\* main, lines 889-890: udiald_tty_pppd returns the child's pid, or 0.
Launch(ok) ==
    /\ pc = "launch"
    /\ IF ok
       THEN /\ pppd' = "running"
            /\ Goto("cops_put", uci)
       ELSE /\ udiald_exitcode(uci, UDIALD_EINTERNAL, TRUE)
            /\ UNCHANGED pppd
    /\ UNCHANGED << args, sigs, pppd_status, sim_state, is_gsm, profile, status, probe_i,
                    ctlline, done >>
    /\ UNCHANGED << r, modem, getvars, flatvars >>

\* udiald_connect_status_mainloop, line 669.
CopsPut ==
    /\ pc = "cops_put"
    /\ Put(At("AT+COPS=3,0\r"))
    /\ Goto("cops_get", uci)
    /\ UNCHANGED << args, sigs, child, sim_state, is_gsm, profile, status, probe_i,
                    done >>
    /\ UNCHANGED << r, modem, getvars, flatvars >>

\* udiald_connect_status_mainloop, lines 670-671: a failure is only logged.
CopsGet ==
    /\ pc = "cops_get"
    /\ Get
    /\ Goto("loop_top", uci)
    /\ UNCHANGED << args, sigs, child, sim_state, is_gsm, profile, status, probe_i,
                    sent, done >>
    /\ UNCHANGED << r, modem, getvars, flatvars >>

\* udiald_connect_status_mainloop, lines 674-679: the loop test and the first run.
LoopTop ==
    /\ pc = "loop_top"
    /\ IF signaled # 0
       THEN /\ Goto("finish", uci)
            /\ UNCHANGED status
       ELSE /\ status < MaxStatus
            /\ status' = status + 1
            /\ IF status' = 0
               THEN Save("query_put", [ uci EXCEPT !.connected = "1" ])
               ELSE Goto("sleep", uci)
    /\ UNCHANGED << args, sigs, child, sim_state, is_gsm, profile, probe_i, ctlline, done >>
    /\ UNCHANGED << r, modem, getvars, flatvars >>

\* A sleep after which the signal is not looked at.
Sleep_NoCheck ==
    /\ pc = "sleep"
    /\ Goto("query_put", uci)
    /\ UNCHANGED << args, sigs, child, sim_state, is_gsm, profile, status, probe_i,
                    ctlline, done >>
    /\ UNCHANGED << r, modem, getvars, flatvars >>

\* udiald_connect_status_mainloop, lines 680-681.
Sleep ==
    /\ pc = "sleep"
    /\ Goto(IF signaled # 0 THEN "finish" ELSE "query_put", uci)
    /\ UNCHANGED << args, sigs, child, sim_state, is_gsm, profile, status, probe_i,
                    ctlline, done >>
    /\ UNCHANGED << r, modem, getvars, flatvars >>

\* udiald_connect_status_mainloop, line 690.
QueryPut ==
    /\ pc = "query_put"
    /\ Put(At("AT+COPS?;+CSQ\r"))
    /\ Goto("query_get", uci)
    /\ UNCHANGED << args, sigs, child, sim_state, is_gsm, profile, status, probe_i,
                    done >>
    /\ UNCHANGED << r, modem, getvars, flatvars >>

\* udiald_connect_status_mainloop, lines 691-718.
QueryGet(res, nlines) ==
    /\ pc = "query_get"
    /\ Get
    /\ GetCan(res)
    /\ IF res # UDIALD_AT_OK \/ nlines < 3
       THEN Goto("loop_top", uci)
       ELSE Save("loop_top", uci)
    /\ UNCHANGED << args, sigs, child, sim_state, is_gsm, profile, status, probe_i,
                    sent, done >>
    /\ UNCHANGED << r, modem, getvars, flatvars >>

\* udiald_tty_get in the supervise loop (lines 670 and 691) on a control line that
\* has hung up: poll() returns at once (tty.c line 118), read() returns 0 (line
\* 130), which line 190 does not take for an error, and the outer loop of line 117
\* goes round again with rem as it was.  The catch handler leaves the descriptor
\* open, so no signal ends this.  (During setup udiald_cleanup_safe closes the
\* descriptor and the call then returns -1, as GetCan has it.)
GetHangs ==
    /\ pc \in { "cops_get", "query_get" }
    /\ ctlfd = 1
    /\ pc' = "hung_read"
    /\ UNCHANGED << args, sigs, child, exit_code, uci, saved, ctlfd, sim_state, is_gsm, profile,
                    status, probe_i, ctlline, done >>
    /\ UNCHANGED << r, modem, getvars, flatvars >>

\* read() returns 0 once more.
HungRead ==
    /\ pc = "hung_read"
    /\ pc' = "hung_poll"
    /\ UNCHANGED << args, sigs, child, exit_code, uci, saved, ctlfd, sim_state, is_gsm, profile,
                    status, probe_i, ctlline, done >>
    /\ UNCHANGED << r, modem, getvars, flatvars >>

\* poll() reports the hang-up once more.
HungPoll ==
    /\ pc = "hung_poll"
    /\ pc' = "hung_read"
    /\ UNCHANGED << args, sigs, child, exit_code, uci, saved, ctlfd, sim_state, is_gsm, profile,
                    status, probe_i, ctlline, done >>
    /\ UNCHANGED << r, modem, getvars, flatvars >>

\* udiald_connect_finish, lines 724-730.
FinishStart ==
    /\ pc = "finish"
    /\ Put(At("ATH;&F\r"))
    /\ Goto("wait_nohang", RevertAll(uci, { "pid", "connected" }))
    /\ UNCHANGED << args, sigs, child, sim_state, is_gsm, profile, status, probe_i,
                    done >>
    /\ UNCHANGED << r, modem, getvars, flatvars >>

\* udiald_connect_finish, line 732: waitpid(..., WNOHANG) reaps a child that has
\* ended and gives 0 for one that runs.
WaitNoHang ==
    /\ pc = "wait_nohang"
    /\ IF pppd = "zombie"
       THEN /\ pppd' = "reaped"
            /\ Goto("classify", uci)
       ELSE /\ Goto("kill", uci)
            /\ UNCHANGED pppd
    /\ UNCHANGED << args, sigs, pppd_status, sim_state, is_gsm, profile, status, probe_i,
                    ctlline, done >>
    /\ UNCHANGED << r, modem, getvars, flatvars >>

\* udiald_connect_finish, line 733: the child ends on SIGTERM.
Kill ==
    /\ pc = "kill"
    /\ IF pppd = "running"
       THEN /\ pppd' = "zombie"
            /\ pppd_status' = [ signaled |-> TRUE, exit |-> 0 ]
       ELSE UNCHANGED child
    /\ Goto("wait_block", uci)
    /\ UNCHANGED << args, sigs, sim_state, is_gsm, profile, status, probe_i, ctlline, done >>
    /\ UNCHANGED << r, modem, getvars, flatvars >>

\* udiald_connect_finish, lines 734-735: waitpid reaps the child, or fails with
\* EINTR when a caught signal arrives first (the handlers are installed without
\* SA_RESTART); its result is not looked at.
WaitBlock(eintr) ==
    /\ pc = "wait_block"
    /\ pppd' = IF eintr THEN pppd ELSE "reaped"
    /\ udiald_exitcode(uci, UDIALD_ESIGNALED, TRUE)
    /\ UNCHANGED << args, sigs, pppd_status, sim_state, is_gsm, profile, status, probe_i,
                    ctlline, done >>
    /\ UNCHANGED << r, modem, getvars, flatvars >>

\* A switch that has no case 15 next to case 0.
PppdCode_No15(st) ==
    IF st.signaled \/ st.exit = 5 THEN UDIALD_ESIGNALED
    ELSE IF st.exit \in { 7, 16 } THEN UDIALD_EMODEM
    ELSE IF st.exit = 8 THEN UDIALD_EDIAL
    ELSE IF st.exit = 0 THEN UDIALD_ENETWORK
    ELSE IF st.exit = 19 THEN UDIALD_EAUTH
    ELSE UDIALD_EPPP

\* udiald_connect_finish, lines 738-760: the exit code for the child's status.
PppdCode(st) ==
    IF st.signaled \/ st.exit = 5 THEN UDIALD_ESIGNALED
    ELSE IF st.exit \in { 7, 16 } THEN UDIALD_EMODEM
    ELSE IF st.exit = 8 THEN UDIALD_EDIAL
    ELSE IF st.exit \in { 0, 15 } THEN UDIALD_ENETWORK
    ELSE IF st.exit = 19 THEN UDIALD_EAUTH
    ELSE UDIALD_EPPP

Classify ==
    /\ pc = "classify"
    /\ udiald_exitcode(uci, PppdCode(pppd_status), TRUE)
    /\ UNCHANGED << args, sigs, child, sim_state, is_gsm, profile, status, probe_i,
                    ctlline, done >>
    /\ UNCHANGED << r, modem, getvars, flatvars >>

\* The wait statuses the child ends with in the runs followed.
ChildStatuses ==
    { [ signaled |-> TRUE, exit |-> 0 ] } \cup
    { [ signaled |-> FALSE, exit |-> e ] : e \in { 0, 1, 5, 7, 8, 15, 16, 19 } }

Running == pc \notin { "exited", "crashed" }

\* The handlers are installed with an empty sa_mask and without SA_NODEFER (lines
\* 778-780): while the handler of a signal runs that signal is held back, and any
\* other signal interrupts it.  A signal held back is delivered when the handler
\* returns, and then finds signaled set.
Blocked(sig) == \E k \in 1..Len(catching) : catching[k] = sig

\* A handler that assigns without looking at signaled.
udiald_catch_signal_NoTest(sig) == signaled' = IF ~Blocked(sig) THEN sig ELSE signaled

\* udiald_catch_signal(sig) runs to its end before anything else happens: line 98.
\* Main does not go on while a handler runs, and what it finds in signaled after
\* handlers that interrupted each other is what it finds after this step for the
\* first of them: the session is followed with deliveries of this kind alone.
udiald_catch_signal(sig) ==
    signaled' = IF signaled = 0 /\ ~Blocked(sig) THEN sig ELSE signaled

\* The child ends by itself; SIGCHLD is delivered to the process.
ChildExit(st) ==
    /\ Running
    /\ pppd = "running"
    /\ pppd' = "zombie"
    /\ pppd_status' = st
    /\ IF handler[SIGCHLD] = "catch"
       THEN udiald_catch_signal(SIGCHLD)
       ELSE UNCHANGED signaled
    /\ UNCHANGED << pc, args, flag_signaled, handler, catching, interrupted, ctlfd, sim_state,
                    is_gsm, profile, status, probe_i, exit_code, uci, saved, ctlline, done >>
    /\ UNCHANGED << r, modem, getvars, flatvars >>

\* SIGINT, SIGTERM or SIGHUP is delivered: udiald_cleanup_safe(sig) while the
\* safe handler is installed, udiald_catch_signal(sig) afterwards.
Signal(sig) ==
    /\ Running
    /\ IF handler[sig] = "safe"
       THEN /\ ctlfd' = IF ctlfd > 0 THEN -1 ELSE ctlfd
            /\ flag_signaled' = TRUE
            /\ UNCHANGED signaled
       ELSE /\ udiald_catch_signal(sig)
            /\ UNCHANGED << ctlfd, flag_signaled >>
    /\ UNCHANGED << pc, args, handler, catching, interrupted, child, sim_state, is_gsm,
                    profile, status, probe_i, exit_code, uci, saved, ctlline, done >>
    /\ UNCHANGED << r, modem, getvars, flatvars >>

\* udiald_catch_signal(sig) is interrupted between its two steps: the test
\* 'if (!signaled)' of line 98 has found 0 and the assignment is still to come
\* when the next signal is delivered.  Until the handler returns main does not
\* go on.  When sig is SIGCHLD the child has ended with the status st.
CatchTest(sig, st) ==
    /\ Running
    /\ handler[sig] = "catch"
    /\ signaled = 0
    /\ ~Blocked(sig)
    /\ IF sig = SIGCHLD
       THEN /\ pppd = "running"
            /\ pppd' = "zombie"
            /\ pppd_status' = st
       ELSE UNCHANGED child
    /\ catching' = Append(catching, sig)
    /\ interrupted' = IF catching = << >> THEN pc ELSE interrupted
    /\ pc' = "in_handler"
    /\ UNCHANGED << args, flag_signaled, signaled, handler, ctlfd, sim_state, is_gsm, profile,
                    status, probe_i, exit_code, uci, saved, ctlline, done >>
    /\ UNCHANGED << r, modem, getvars, flatvars >>

\* The innermost interrupted handler goes on: it assigns, 'signaled = signal' of
\* line 98, and returns to the handler it interrupted, or to main.
CatchWrite ==
    /\ pc = "in_handler"
    /\ signaled' = catching[Len(catching)]
    /\ catching' = SubSeq(catching, 1, Len(catching) - 1)
    /\ IF Len(catching) = 1
       THEN /\ pc' = interrupted
            /\ interrupted' = "none"
       ELSE UNCHANGED << pc, interrupted >>
    /\ UNCHANGED << args, flag_signaled, handler, child, ctlfd, sim_state, is_gsm, profile,
                    status, probe_i, exit_code, uci, saved, ctlline, done >>
    /\ UNCHANGED << r, modem, getvars, flatvars >>

\* The steps of the process itself.
Steps ==
    \/ TestState
    \/ ResetState
    \/ \E e \in { UDIALD_OK, UDIALD_ENOMODEM }, p \in Candidates : SelectModem(e, p)
    \/ \E ok \in BOOLEAN : OpenControl(ok)
    \/ ResetPut
    \/ ResetGet
    \/ \E ok \in BOOLEAN : IdentifyPut(ok)
    \/ \E res \in GetResults, nlines \in { 2, 3 } : IdentifyGet(res, nlines)
    \/ \E ok \in BOOLEAN, fl \in FlattenUninit : CheckSimPut(ok, fl)
    \/ \E res \in GetResults, rl \in SimLines \cup { NOSTR } : CheckSimGet(res, rl)
    \/ CheckSimTest
    \/ AfterSim
    \/ \E ok \in BOOLEAN : EnterPukPut(ok)
    \/ \E res \in GetResults : EnterPukGet(res)
    \/ \E ok \in BOOLEAN, fl \in FlattenUninit : EnterPinPut(ok, fl)
    \/ \E res \in GetResults : EnterPinGet(res)
    \/ AfterPin
    \/ \E ok \in BOOLEAN, fl \in FlattenUninit : udiald_probe_cmd(ok, fl)
    \/ \E ok \in BOOLEAN : CheckCapsPut(ok)
    \/ \E res \in GetResults, rl \in CapLines \cup { NOSTR } : CheckCapsGet(res, rl)
    \/ \E ok \in BOOLEAN, fl \in FlattenUninit : SetModePut(ok, fl)
    \/ \E res \in GetResults : SetModeGet(res)
    \/ SetModeTest
    \/ SavePid
    \/ \E k \in 1..Len(SigPc) : Sigaction(k)
    \/ SetDial
    \/ \E ok \in BOOLEAN : Launch(ok)
    \/ CopsPut
    \/ CopsGet
    \/ LoopTop
    \/ Sleep
    \/ QueryPut
    \/ \E res \in GetResults, nlines \in { 2, 3 } : QueryGet(res, nlines)
    \/ FinishStart
    \/ WaitNoHang
    \/ Kill
    \/ \E eintr \in BOOLEAN : WaitBlock(eintr)
    \/ Classify
    \/ GetHangs
    \/ HungRead
    \/ HungPoll

Next ==
    \/ Steps
    \/ \E st \in ChildStatuses : ChildExit(st)
    \/ \E sig \in { SIGHUP, SIGINT, SIGTERM } : Signal(sig)

\* The reader is not looked into while the session is followed.
GetIdle ==
    /\ get_pc = "idle"
    /\ result_prefix = NULLSTR
    /\ raw_buf = [ o \in Offsets |-> UNINIT ]
    /\ raw_lines = [ k \in 0..(RawLinesLen - 1) |-> UNINIT_PTR ]
    /\ lines = 0
    /\ result_line = NULL
    /\ c = 0
    /\ rem = 0
    /\ in_newline = FALSE
    /\ get_res = 0
    /\ get_errno = "none"
    /\ pending = << >>
    /\ hup = FALSE
    /\ emitted = 0
    /\ elapsed = 0
    /\ oob = FALSE

Init == MainInit /\ GetIdle /\ FlatIdle

Spec == Init /\ [][Next]_vars

\* The same, with the process always scheduled again: while it has a step to take
\* it takes one.  When signals arrive and when the child ends is left open.
SpecFair == Init /\ [][Next]_vars /\ WF_vars(Steps)

GetNext ==
    \/ OuterExit
    \/ PollTimeout
    \/ PollError
    \/ PollReady
    \/ \E w \in 0..(Timeout - 1), chunk \in Chunks : PollWait(w, chunk)
    \/ \E w \in 0..(Timeout - 1) : PollHup(w)
    \/ \E chunk \in Chunks : Arrive(chunk)
    \/ ReadAgain
    \/ ReadEof
    \/ ReadError
    \/ ReadLineEnd
    \/ ReadLineEndAgain
    \/ ReadLineStart
    \/ ReadRegular
    \/ ReadOverflow

\* A process of which only the position p and the modem m looked up matter.
MainAt(p, m) ==
    /\ pc = p
    /\ app = "scan"
    /\ flag_teststate = FALSE
    /\ pin = NOSTR
    /\ pukargs = NoPukArgs
    /\ flag_signaled = FALSE
    /\ signaled = 0
    /\ catching = << >>
    /\ interrupted = "none"
    /\ handler = [ sig \in { SIGHUP, SIGINT, SIGTERM, SIGCHLD } |-> "default" ]
    /\ ctlfd = 1
    /\ sim_state = 0
    /\ is_gsm = FALSE
    /\ profile = 0
    /\ status = -1
    /\ probe_i = 1
    /\ exit_code = -1
    /\ uci = FreshStore(NOSTR, NOSTR, NOSTR, UDIALD_OK)
    /\ saved = uci
    /\ sent = { }
    /\ unread = 0
    /\ r = NoRead
    /\ modem = m
    /\ pppd = "none"
    /\ pppd_status = [ signaled |-> FALSE, exit |-> 0 ]
    /\ done = << >>

\* No session runs while the reader is followed.
MainIdle == MainAt("idle", NoModem)

\* udiald_tty_get is called.
InitGet == GetInit /\ MainIdle /\ FlatIdle

SpecGet == InitGet /\ [][GetNext]_vars

(***************************************************************************)
(* The profile lookup for one candidate modem.                             *)
(***************************************************************************)
\* The modems looked up: the ids and drivers the table names, and others.
ModemCandidates ==
    [ vendor : { 3035, 7099, 4817, 6610, 1118 },
      device : { 6400, 4097, 5171, 0, 1 },
      driver : { "option", "sierra", "hso", "cdc_acm", "usbserial", "qcserial" } ]

\* The profile p has all of its conditions matched by the modem m: a condition
\* that is not set (0, or no driver name) matches every modem.
Matches(p, m) ==
    /\ p.vendor # 0 => p.vendor = m.vendor
    /\ p.device # 0 => p.device = m.device
    /\ p.driver # NOSTR => p.driver = m.driver

\* The first entry of profiles[] that matches m, 0 when none does.
FirstMatch(m) ==
    IF \E i \in 1..Len(profiles) : Matches(profiles[i], m)
    THEN CHOOSE i \in 1..Len(profiles) :
             /\ Matches(profiles[i], m)
             /\ \A j \in 1..(i - 1) : ~Matches(profiles[j], m)
    ELSE 0

\* The profile of the modem is looked up in the table.
FindProfile ==
    /\ pc = "find_profile"
    /\ profile' = FirstMatch(modem)
    /\ pc' = IF profile' = 0 THEN "no_profile" ELSE "bound"
    /\ UNCHANGED << args, sigs, child, sim_state, is_gsm, status, probe_i, ctlline, done,
                    ctlfd, exit_code, uci, saved, r, modem >>
    /\ UNCHANGED << getvars, flatvars >>

InitSelect == GetIdle /\ FlatIdle /\ \E m \in ModemCandidates : MainAt("find_profile", m)

NextSelect == FindProfile

SpecSelect == InitSelect /\ [][NextSelect]_vars

(***************************************************************************)
(* udiald_tty_flatten_result on the buffers udiald_tty_get can leave: up   *)
(* to lengthof(raw_lines) committed lines, none of them empty.             *)
(***************************************************************************)
FlatChars == { "a", "," }

FlatLines ==
    UNION { [ 1..n -> FlatChars ] : n \in 1..MaxLineLen }

FlatBuffers ==
    UNION { [ lines : { n }, raw_lines : [ 1..n -> FlatLines ] ] : n \in 0..RawLinesLen }

InitFlatten ==
    /\ GetIdle
    /\ MainIdle
    /\ flat_pc = "call"
    /\ flat_r \in FlatBuffers
    /\ flat_buf = << UNINIT >>
    /\ flat_calls = 0

NextFlatten == Flatten

SpecFlatten == InitFlatten /\ [][NextFlatten]_vars

(***************************************************************************)
(* udiald_tty_get as it runs: the call is never suspended for ever, so     *)
(* while a step of it is possible one is taken.  Which outcome poll() and  *)
(* read() have is left to the descriptor.                                  *)
(***************************************************************************)
SpecGetFair == InitGet /\ [][GetNext]_vars /\ WF_vars(GetNext)

(***************************************************************************)
(* The delivery of signals from the switch of the handlers on, followed at *)
(* the two steps of udiald_catch_signal.                                   *)
(***************************************************************************)

\* A connect run as it arrives at line 876: the modem is identified and speaks
\* GSM, the SIM is ready, the mode is left alone, the pid is saved, and no signal
\* has arrived.
InitCatch ==
    /\ GetIdle
    /\ FlatIdle
    /\ pc = "sigaction_term"
    /\ app = "connect"
    /\ flag_teststate = FALSE
    /\ pin = NOSTR
    /\ pukargs = NoPukArgs
    /\ flag_signaled = FALSE
    /\ signaled = 0
    /\ catching = << >>
    /\ interrupted = "none"
    /\ handler = [ sig \in { SIGHUP, SIGINT, SIGTERM, SIGCHLD } |->
                     IF sig = SIGCHLD THEN "default" ELSE "safe" ]
    /\ ctlfd = 1
    /\ sim_state = 0
    /\ is_gsm = TRUE
    /\ profile = 2
    /\ status = -1
    /\ probe_i = 1
    /\ exit_code = -1
    /\ uci = [ FreshStore(NOSTR, NOSTR, NOSTR, UDIALD_OK) EXCEPT
                 !.udiald_state = "init", !.sim_state = "ready", !.modem_gsm = "1",
                 !.pid = "getpid" ]
    /\ saved = uci
    /\ sent = { At("ATE0\r"), At("AT+CGMI;+CGMM\r"), At("AT+CPIN?\r"), At("AT+GCAP\r") }
    /\ unread = 0
    /\ r = NoRead
    /\ modem = NoModem
    /\ pppd = "none"
    /\ pppd_status = [ signaled |-> FALSE, exit |-> 0 ]
    /\ done = << "select_modem", "open_control", "reset", "identify", "check_sim",
                 "check_caps", "set_mode" >>

\* The steps of main from the switch on, the signals, and the steps of a handler
\* that is interrupted.
NextCatch ==
    \/ \E k \in 1..Len(SigPc) : Sigaction(k)
    \/ SetDial
    \/ \E ok \in BOOLEAN : Launch(ok)
    \/ CopsPut
    \/ CopsGet
    \/ LoopTop
    \/ Sleep
    \/ QueryPut
    \/ \E res \in GetResults, nlines \in { 2, 3 } : QueryGet(res, nlines)
    \/ FinishStart
    \/ WaitNoHang
    \/ Kill
    \/ \E eintr \in BOOLEAN : WaitBlock(eintr)
    \/ Classify
    \/ GetHangs
    \/ HungRead
    \/ HungPoll
    \/ \E st \in ChildStatuses : ChildExit(st)
    \/ \E sig \in { SIGHUP, SIGINT, SIGTERM } : Signal(sig)
    \/ \E sig \in { SIGHUP, SIGINT, SIGTERM, SIGCHLD }, st \in ChildStatuses : CatchTest(sig, st)
    \/ CatchWrite

SpecCatch == InitCatch /\ [][NextCatch]_vars

(***************************************************************************)
(* The session's properties, checked under Spec.                           *)
(***************************************************************************)
Range(f) == { f[k] : k \in DOMAIN f }

\* C1: once SIGINT, SIGTERM or SIGHUP has been delivered during setup, the
\* signaled flag stays set, no further phase completes and the link child is
\* not launched.
C1_SignalStopsSetup ==
    [][ flag_signaled =>
          /\ flag_signaled'
          /\ done' = done
          /\ (pppd = "none" => pppd' = "none") ]_vars

\* The phases a run has completed when it launches the link child.
PhasesBeforeLaunch ==
    << "select_modem", "open_control", "reset", "identify", "check_sim" >>
    \o (IF sim_state = 1 THEN << "enter_pin" >> ELSE << >>)
    \o << "check_caps" >>
    \o (IF is_gsm THEN << "set_mode" >> ELSE << >>)

\* C2: the link child is launched only in connect mode, after the setup phases
\* have completed in their order (enter-PIN when the SIM wants a PIN, set-mode
\* when the modem is GSM), and never while the SIM wants a PUK or is in error.
C2_LaunchOrder ==
    pppd # "none" =>
        /\ app = "connect"
        /\ done = PhasesBeforeLaunch
        /\ sim_state \notin { 2, -1 }

\* C2's case: a link child launched for a GSM modem whose SIM wanted a PIN.
C2_Witness == pppd = "running" /\ sim_state = 1 /\ is_gsm

\* The AT+CPIN= commands among what was written to the line.
PinCommands == { m \in sent : m.a # NOSTR }

\* C8: outside probe mode, when the SIM wants a PIN and the persisted failed_pin
\* is the candidate PIN, udiald_enter_pin sends nothing and the process exits
\* with UNLOCK (7).
C8_FailedPinRefused ==
    [][ ( /\ pc = "enter_pin"
          /\ pc' # pc
          /\ app # "probe"
          /\ sim_state = 1
          /\ saved.global_failed_pin # NOSTR
          /\ saved.global_failed_pin = CandidatePin )
        => ( /\ pc' = "exited"
             /\ exit_code' = UDIALD_EUNLOCK
             /\ sent' = sent ) ]_vars

\* C9: when the process has ended, a PIN that was rejected (the failed_pin the
\* process holds in memory) is the failed_pin of the persisted store, and after
\* an accepted PIN the persisted store holds no failed_pin.
C9_FailedPinPersisted ==
    ~Running =>
        /\ uci.global_failed_pin # NOSTR =>
              saved.global_failed_pin = uci.global_failed_pin
        /\ "enter_pin" \in Range(done) => saved.global_failed_pin = NOSTR

\* A string holds a double quote, a CR, an LF or a semicolon.
Forbidden(str) ==
    str \in { "1;", "3\r", "8\"", "9\n" }

\* No AT+CPIN= command written to the line was built from a forbidden string.
NoForbiddenSent ==
    \A m \in PinCommands : ~Forbidden(m.a) /\ (m.b # NOSTR => ~Forbidden(m.b))

\* The run ended in udiald_enter_pin (outside probe mode nothing else ends a run
\* between check-SIM and the end of enter-PIN).
EndedInEnterPin ==
    /\ pc = "exited"
    /\ app \in { "connect", "unlock" }
    /\ sim_state = 1
    /\ done = << "select_modem", "open_control", "reset", "identify", "check_sim" >>

\* The run ended in enter-PUK mode after check-SIM, with both arguments given.
EndedInEnterPuk ==
    /\ pc = "exited"
    /\ app = "pinpuk"
    /\ pukargs.n = 2
    /\ done = << "select_modem", "open_control", "reset", "identify", "check_sim" >>

\* C10 as stated: no AT+CPIN= command is built from a forbidden string; an
\* absent or empty PIN ends the run with UNLOCK and a forbidden character in
\* the PIN, the PUK or the new PIN ends it with INVALID-ARG, nothing being sent.
C10_Original ==
    /\ NoForbiddenSent
    /\ EndedInEnterPin /\ (CandidatePin = NOSTR \/ CandidatePin = "") =>
          exit_code = UDIALD_EUNLOCK /\ PinCommands = { }
    /\ EndedInEnterPin /\ CandidatePin # NOSTR /\ Forbidden(CandidatePin) =>
          exit_code = UDIALD_EINVAL /\ PinCommands = { }
    /\ EndedInEnterPuk /\ (Forbidden(pukargs.puk) \/ Forbidden(pukargs.pin)) =>
          exit_code = UDIALD_EINVAL /\ PinCommands = { }

\* The exit code of a failure that udiald_exitcode is asked to report as code.
Reported(code) == IF flag_signaled THEN UDIALD_ESIGNALED ELSE code

\* C10 amended: no AT+CPIN= command is built from a forbidden string; an absent
\* or empty PIN ends the run with UNLOCK, a forbidden character in the PIN with
\* INVALID-ARG, and a forbidden character in the PUK or the new PIN with
\* INVALID-ARG when the SIM wants a PUK and with SIM otherwise; when the
\* signaled flag is set the code is SIGNALED instead; nothing is sent.
C10_Amended ==
    /\ NoForbiddenSent
    /\ EndedInEnterPin /\ (CandidatePin = NOSTR \/ CandidatePin = "") =>
          exit_code = Reported(UDIALD_EUNLOCK) /\ PinCommands = { }
    /\ EndedInEnterPin /\ CandidatePin # NOSTR /\ Forbidden(CandidatePin) =>
          exit_code = Reported(UDIALD_EINVAL) /\ PinCommands = { }
    /\ EndedInEnterPuk /\ (Forbidden(pukargs.puk) \/ Forbidden(pukargs.pin)) =>
          /\ exit_code = Reported(IF sim_state = 2 THEN UDIALD_EINVAL ELSE UDIALD_ESIM)
          /\ PinCommands = { }

\* C10's case: a run that ended on a PIN with a forbidden character.
C10_Witness ==
    /\ EndedInEnterPin
    /\ CandidatePin # NOSTR
    /\ Forbidden(CandidatePin)
    /\ exit_code = UDIALD_EINVAL

(***************************************************************************)
(* The reader's properties, checked under SpecGet.                         *)
(***************************************************************************)
\* udiald_tty_get is still in its loops.
Reading == get_pc \in { "poll", "read" }
\* udiald_tty_get has returned, or has gone on after the store outside raw_buf.
Returned == get_pc \in { "ret", "ub" }
\* The committed lines.
Committed == 0..(lines - 1)

\* C3: udiald_tty_get returns as soon as a committed line begins with a status
\* code: while it reads no committed line begins with one, and a returned tag is
\* the code the last committed line begins with, no earlier line beginning with
\* any.
C3_ReturnsOnTerminator ==
    /\ Reading => \A i \in Committed : MatchTag(LineStr(i)) = 0
    /\ Returned /\ get_res \in 1..Len(ttyresstr) =>
          /\ lines > 0
          /\ MatchTag(LineStr(lines - 1)) = get_res
          /\ \A i \in 0..(lines - 2) : MatchTag(LineStr(i)) = 0

\* C4: no byte is stored outside raw_buf and no line start outside the slots of
\* raw_lines before the reserved last one, the remaining-bytes counter never
\* goes below zero, and a call that fails with ERANGE has used up the line
\* slots or the bytes.
C4_WithinBuffers ==
    /\ ~oob
    /\ rem >= 0
    /\ c \in 0..RawBufLen
    /\ raw_lines[RawLinesLen - 1] = UNINIT_PTR
    /\ \A i \in 0..(RawLinesLen - 2) : raw_lines[i] \in Offsets \cup { UNINIT_PTR }
    /\ get_pc = "ret" /\ get_errno = "ERANGE" =>
          get_res = -1 /\ (rem = 0 \/ lines = RawLinesLen - 1)

\* C5: no committed line begins with '^'.
C5_NoAsyncLines ==
    \A i \in Committed : raw_buf[raw_lines[i]] # "^"

\* The committed lines that begin with the result prefix and are longer than it.
ProperMatches ==
    { i \in Committed : /\ StartsWith(LineStr(i), result_prefix)
                        /\ Len(LineStr(i)) > Len(result_prefix) }

\* C6: after the call, result_line is the first committed line that has the
\* prefix as a proper prefix, and is unset when there is none or no prefix was
\* given.
C6_ResultLine ==
    Returned =>
        IF result_prefix = NULLSTR \/ ProperMatches = { }
        THEN result_line = NULL
        ELSE \E i \in ProperMatches :
                /\ result_line = raw_lines[i]
                /\ \A j \in ProperMatches : i <= j

\* C7: once the timeout has elapsed since the call began the call is no longer
\* reading, and no tag is returned later than that.
C7_Deadline ==
    /\ Reading => elapsed <= Timeout
    /\ Returned /\ get_res \in 1..Len(ttyresstr) => elapsed <= Timeout

(***************************************************************************)
(* The session's error handling, checked under Spec.                       *)
(***************************************************************************)
\* The step ends the process with this exit code.
Ends(code) == pc' = "exited" /\ exit_code' = code

\* udiald_enter_pin, udiald_enter_puk and udiald_set_mode are about to write
\* their command: what they test before the put lets them through.
PinAttempt ==
    /\ pc = "enter_pin" /\ sim_state = 1
    /\ CandidatePin # NOSTR /\ PinChars[CandidatePin] # << >>
    /\ ~Forbidden(CandidatePin)
    /\ ~(uci.global_failed_pin # NOSTR /\ CandidatePin = uci.global_failed_pin)
PukAttempt ==
    /\ pc = "enter_puk" /\ sim_state = 2
    /\ ~Forbidden(pukargs.pin) /\ ~Forbidden(pukargs.puk)
ModeAttempt ==
    /\ pc = "set_mode" /\ ModeAsked # -1
    /\ profiles[profile].modecmd[ModeAsked] \notin { NOSTR, "" }

\* C11: outside probe mode and with the signaled flag clear, a step that leaves a
\* phase's put or get without going on to the phase's next position (the write
\* failed, the reader timed out or gave a terminator other than OK) ends the
\* process with the code of the phase: MODEM in identify, SIM in check-SIM,
\* UNLOCK in enter-PIN and enter-PUK, MODEM in set-mode.
C11_PhaseKind ==
    [][ (app # "probe" /\ ~flag_signaled) =>
          /\ (pc = "identify_put" /\ pc' \notin { pc, "identify_get" }
                => Ends(UDIALD_EMODEM))
          /\ (pc = "identify_get" /\ pc' \notin { pc, "check_sim_put" }
                => Ends(UDIALD_EMODEM))
          /\ (pc = "check_sim_put" /\ pc' \notin { pc, "check_sim_get" }
                => Ends(UDIALD_ESIM))
          /\ (pc = "check_sim_test" /\ r.res # UDIALD_AT_OK /\ pc' # pc
                => Ends(UDIALD_ESIM))
          /\ (PinAttempt /\ pc' \notin { pc, "enter_pin_get" }
                => Ends(UDIALD_EUNLOCK))
          /\ (pc = "enter_pin_get" /\ pc' \notin { pc, "after_pin" }
                => Ends(UDIALD_EUNLOCK))
          /\ (PukAttempt /\ pc' \notin { pc, "enter_puk_get" }
                => Ends(UDIALD_EUNLOCK))
          /\ (pc = "enter_puk_get" /\ pc' # pc /\ ~Ends(UDIALD_OK)
                => Ends(UDIALD_EUNLOCK))
          /\ (ModeAttempt /\ pc' \notin { pc, "set_mode_get" }
                => Ends(UDIALD_EMODEM))
          /\ (pc = "set_mode_test" /\ r.res # UDIALD_AT_OK /\ pc' # pc
                => Ends(UDIALD_EMODEM)) ]_vars

\* The step is a call udiald_exitcode(UDIALD_OK, NULL): scan and unlock are done,
\* the last probe command is through, or the PUK was accepted.
OkCall ==
    \/ pc = "after_sim" /\ app = "scan"
    \/ pc = "after_pin" /\ app = "unlock"
    \/ pc = "probe_put" /\ probe_i = Len(ProbeCmds)
    \/ pc = "enter_puk_get" /\ uci'.sim_state = "ready"

\* C12: a step that ends the process through udiald_exitcode while the signaled
\* flag is set gives exit code SIGNALED when the code passed is not zero, and then
\* the saved store holds the udiald_error_code and udiald_error_msg it held in
\* memory before the call; a call with code zero gives exit code OK.
C12_SignaledOverride ==
    [][ (pc' = "exited" /\ pc \notin { "exited", "teststate" } /\ flag_signaled) =>
          IF OkCall
          THEN exit_code' = UDIALD_OK
          ELSE /\ exit_code' = UDIALD_ESIGNALED
               /\ saved'.udiald_error_code = uci.udiald_error_code
               /\ saved'.udiald_error_msg = uci.udiald_error_msg ]_vars

\* A run cut short in setup, before any child, has ended SIGNALED with no error
\* in the store.
C12_Witness ==
    /\ pc = "exited" /\ flag_signaled /\ pppd = "none"
    /\ exit_code = UDIALD_ESIGNALED
    /\ "open_control" \in Range(done)
    /\ saved.udiald_error_code = 0 /\ saved.udiald_error_msg = NOSTR

\* The exit code the link-daemon exit table gives for a wait status.
LinkExitTable(st) ==
    CASE st.signaled -> UDIALD_ESIGNALED
      [] ~st.signaled /\ st.exit = 5 -> UDIALD_ESIGNALED
      [] ~st.signaled /\ st.exit \in { 7, 16 } -> UDIALD_EMODEM
      [] ~st.signaled /\ st.exit = 8 -> UDIALD_EDIAL
      [] ~st.signaled /\ st.exit \in { 0, 15 } -> UDIALD_ENETWORK
      [] ~st.signaled /\ st.exit = 19 -> UDIALD_EAUTH
      [] OTHER -> UDIALD_EPPP

\* C13: when the non-blocking reap of udiald_connect_finish has returned the child
\* and the signaled flag is clear, the process ends with the exit code the table
\* gives for the child's status: 7 or 16 MODEM, 8 DIAL, 0 or 15 NETWORK, 19 AUTH,
\* 5 or death by a signal SIGNALED, anything else PPP.
C13_ExitTable ==
    [][ (pc = "classify" /\ pc' # pc /\ ~flag_signaled) =>
          Ends(LinkExitTable(pppd_status)) ]_vars

\* A child that ended with status 15 was reaped and the process ended NETWORK.
C13_Witness ==
    /\ pc = "exited" /\ ~flag_signaled /\ pppd = "reaped"
    /\ pppd_status = [ signaled |-> FALSE, exit |-> 15 ]
    /\ exit_code = UDIALD_ENETWORK

\* C14: a process that launched the link child and recorded SIGINT, SIGTERM or
\* SIGHUP (the signaled flag of setup, or the signal number of the supervise
\* loop) ends SIGNALED whatever status the child ended with and whenever it ended;
\* a process that recorded none of them and reaped a child that ended by itself
\* with status 19 ends AUTH.
C14_SignalWins ==
    (pc = "exited" /\ pppd # "none") =>
        IF flag_signaled \/ signaled \in { SIGHUP, SIGINT, SIGTERM }
        THEN exit_code = UDIALD_ESIGNALED
        ELSE (pppd = "reaped" /\ pppd_status = [ signaled |-> FALSE, exit |-> 19 ])
                 => exit_code = UDIALD_EAUTH

\* C15: on the control line every put is followed by a get before the next put,
\* also when the put fails or the get times out: at no time have two puts been
\* made with no get between them.
C15_PutThenGet == unread # 2

\* The SIM state and the sim_state key that the reader result r stands for.
SimOf(rd) ==
    IF rd.res = UDIALD_AT_OK /\ rd.rl = "+CPIN: READY" THEN << 0, "ready" >>
    ELSE IF rd.res = UDIALD_AT_OK /\ rd.rl = "+CPIN: SIM PIN" THEN << 1, "wantpin" >>
    ELSE IF rd.res = UDIALD_AT_OK /\ rd.rl = "+CPIN: SIM PUK" THEN << 2, "wantpuk" >>
    ELSE << -1, "error" >>

\* What udiald_check_sim makes of the reader result for AT+CPIN?; onerror is the
\* exit code of a run that ends on the error state.
SimDetermined(onerror) ==
    (pc = "check_sim_test" /\ pc' # pc) =>
        /\ sim_state' = SimOf(r)[1]
        /\ uci'.sim_state = SimOf(r)[2]
        /\ IF SimOf(r)[1] = -1 /\ app # "probe"
           THEN Ends(onerror) /\ saved'.sim_state = "error"
           ELSE pc' = "after_sim"

\* C16 as claimed: the SIM state and the sim_state key follow from the reader
\* result for AT+CPIN? (READY 0 and ready, SIM PIN 1 and wantpin, SIM PUK 2 and
\* wantpuk, anything else the error state and error), and the error state ends
\* the run with SIM unless the mode is probe.
C16_Original == [][ SimDetermined(UDIALD_ESIM) ]_vars

\* C16 amended: the same, where the run that ends on the error state ends with
\* SIGNALED instead of SIM when the signaled flag is set.
C16_Amended == [][ SimDetermined(Reported(UDIALD_ESIM)) ]_vars

\* The reader answered AT+CPIN? with something that is no SIM status and the run
\* ended with SIM and the key error in the saved store.
C16_Witness ==
    /\ pc = "exited" /\ ~flag_signaled /\ exit_code = UDIALD_ESIM
    /\ sim_state = -1 /\ saved.sim_state = "error"
    /\ unread = 0 /\ At("AT+CPIN?\r") \in sent

\* The configured mode name (auto when none is set), whether it is one of the five
\* tags, and the command the bound profile has for it.
ModeName == IF uci.udiald_mode \in { NOSTR, "" } THEN "auto" ELSE uci.udiald_mode
IsTag(m) == \E i \in 1..Len(Modes) : Modes[i] = m
CmdFor(m) == profiles[profile].modecmd[CHOOSE i \in 1..Len(Modes) : Modes[i] = m]

\* C17: set-mode with the mode name m and the bound profile p: when m is no mode
\* tag or p has no command for m the run ends INVALID-ARG and nothing is sent;
\* when the command is the empty string nothing is sent and the run goes on to
\* dial; otherwise that command and no other is written, and the run goes on when
\* the response ends in OK and ends MODEM when it does not or the write failed.
\* (Where the signaled flag is set the code may be SIGNALED instead.)
C17_SetMode ==
    [][ /\ (pc = "set_mode" /\ pc' # pc) =>
              IF ~IsTag(ModeName) \/ CmdFor(ModeName) = NOSTR
              THEN Ends(Reported(UDIALD_EINVAL)) /\ sent' = sent
              ELSE IF CmdFor(ModeName) = ""
              THEN pc' = "save_pid" /\ sent' = sent
              ELSE /\ sent' \subseteq sent \cup { At(CmdFor(ModeName)) }
                   /\ pc' = "set_mode_get" \/ Ends(Reported(UDIALD_EMODEM))
        /\ (pc = "set_mode_test" /\ pc' # pc) =>
              IF r.res = UDIALD_AT_OK
              THEN pc' = "save_pid"
              ELSE Ends(Reported(UDIALD_EMODEM)) ]_vars

(***************************************************************************)
(* The profile table's property, checked under SpecSelect.                 *)
(***************************************************************************)
\* The selector fields an entry sets, and whether they all equal the modem's.
SetSelectors(p) ==
    { f \in { "vendor", "device" } : p[f] # 0 } \cup
    { f \in { "driver" } : p[f] # NOSTR }
Fits(p, m) == \A f \in SetSelectors(p) : p[f] = m[f]

\* C18: the entry bound to a modem is the first of the table whose set selectors
\* all equal the modem's, and it sets at least as many selectors as every later
\* entry that fits; no entry fits a modem that gets none; vendor 0x12d1 device
\* 0x1001 is bound to Huawei K3520 with ctlidx 2 and datidx 0.
C18_MostSpecific ==
    /\ pc = "bound" =>
          /\ profile \in 1..Len(profiles)
          /\ Fits(profiles[profile], modem)
          /\ \A j \in 1..Len(profiles) :
                Fits(profiles[j], modem) =>
                    /\ j >= profile
                    /\ Cardinality(SetSelectors(profiles[profile]))
                           >= Cardinality(SetSelectors(profiles[j]))
          /\ (modem.vendor = 4817 /\ modem.device = 4097) =>
                /\ profiles[profile].name = "Huawei K3520"
                /\ profiles[profile].ctlidx = 2 /\ profiles[profile].datidx = 0
    /\ pc = "no_profile" => \A j \in 1..Len(profiles) : ~Fits(profiles[j], modem)

\* The Huawei K3520 on the option driver, which three entries fit, is bound.
C18_Witness ==
    /\ pc = "bound"
    /\ modem = [ vendor |-> 4817, device |-> 4097, driver |-> "option" ]
    /\ Cardinality({ j \in 1..Len(profiles) : Fits(profiles[j], modem) }) = 3
    /\ profiles[profile].name = "Huawei K3520"

\* C19: a probe run that has opened the control line and ends with the signaled
\* flag clear has gone through all the probe commands and ended OK: no failing
\* AT transaction of identify, check-SIM, enter-PIN or a probe command ends it.
C19_ProbeGoesOn ==
    (app = "probe" /\ ~Running /\ ~flag_signaled /\ "open_control" \in Range(done)) =>
        /\ pc = "exited" /\ exit_code = UDIALD_OK
        /\ probe_i = Len(ProbeCmds)

\* What the saved store holds of the failure code at exit.
ErrorSaved(code) ==
    /\ saved.udiald_error_code = code
    /\ saved.udiald_error_msg # NOSTR
    /\ app = "connect" => saved.udiald_state = "error"

TestAbort == pc = "exited" /\ done = << >> /\ exit_code = UDIALD_EUNLOCK

C21_RefusesAfterUnlock ==
    [][ ( /\ pc = "teststate" /\ pc' # pc
          /\ app = "connect" /\ flag_teststate
          /\ saved.udiald_error_code = UDIALD_EUNLOCK ) =>
            Ends(UDIALD_EUNLOCK) /\ sent' = { } /\ done' = << >> ]_vars


(***************************************************************************)
(* The flattener's properties, checked under SpecFlatten.                  *)
(***************************************************************************)
Quoted(s) == << DQ >> \o s \o << DQ >>

\* "l1", "l2", ...: one comma and one space between items, none after the last.
RECURSIVE Joined(_)
Joined(ls) ==
    IF ls = << >> THEN << >>
    ELSE IF Len(ls) = 1 THEN Quoted(ls[1])
    ELSE Quoted(Head(ls)) \o << ",", " " >> \o Joined(Tail(ls))

\* A step that is one call of udiald_tty_flatten_result.
FlattenCall == flat_calls' = flat_calls + 1

\* The quoted, separated lines and the NUL after them have room in flat_buf.
FitsFlatBuf == Len(Joined(flat_r.raw_lines)) <= FlatEnd

C23_Terminate ==
    [][ ( pc \in { "wait_block", "classify" } /\ pc' = "exited" ) =>
          /\ At("ATH;&F\r") \in sent
          /\ pppd' = "reaped"
          /\ exit_code' = LinkExitTable(pppd_status') ]_vars


(***************************************************************************)
(* The reader's termination, checked under SpecGetFair.                    *)
(***************************************************************************)
\* C24: whatever poll() and read() do, every call of udiald_tty_get eventually
\* returns a terminator tag or a failure (or has left its buffer, after which
\* nothing is known of it).
C24_Terminates == <>(get_pc \in { "ret", "ub" })


\* C25: once the link child has been launched the process exits only after a
\* waitpid has returned the child's pid: it never exits leaving the child
\* running or unreaped.
C25_ReapedAtExit ==
    (pc = "exited" /\ pppd # "none") => pppd = "reaped"


(***************************************************************************)
(* The session's progress, checked under SpecFair.                         *)
(***************************************************************************)
\* C26: the catch handler for SIGCHLD is installed before the child is forked,
\* so once the child has exited, whenever that is after the launch, the supervise
\* loop ends and the process terminates through udiald_connect_finish.
C26_ChildExitEndsRun ==
    (pppd = "zombie") ~> (pc = "exited")


(***************************************************************************)
(* More of the session's properties, checked under Spec.                   *)
(***************************************************************************)
UnlockPcs == { "enter_pin", "enter_puk" }

\* The AT+CPIN= commands of the PUK form: AT+CPIN="<puk>","<newpin>".
PukCommands == { m \in PinCommands : m.b # NOSTR }

\* C27: in a run at most one SIM-unlock command is transmitted: only the step
\* that leaves enter-PIN or enter-PUK transmits one, it does so with none sent
\* before, and each of the two is left with none sent before.  The PUK form is
\* transmitted only in enter-PUK mode with check-SIM having found the SIM to
\* want the PUK.
C27_OneUnlock ==
    [][ /\ Cardinality(PinCommands') <= 1
        /\ PinCommands' # PinCommands => pc \in UnlockPcs /\ pc' # pc
        /\ (pc \in UnlockPcs /\ pc' # pc) => PinCommands = { }
        /\ PukCommands' # { } => app = "pinpuk" /\ sim_state = 2 ]_vars

\* A run has transmitted the PUK form and ended.
C27_Witness ==
    /\ pc = "exited"
    /\ Cardinality(PukCommands) = 1
    /\ Cardinality(PinCommands) = 1


(***************************************************************************)
(* More of the reader's properties, checked under SpecGet.                 *)
(***************************************************************************)
\* The step that ends a line beginning with '^' (tty.c lines 143-148).
DiscardsLine ==
    /\ get_pc = "read" /\ ~oob
    /\ pending # << >> /\ Head(pending) \in { CR, LF }
    /\ c \in Offsets /\ ~in_newline
    /\ raw_buf[raw_lines[lines]] = "^"

\* C28: a complete '^' line changes nothing of what udiald_tty_get returns: the
\* step that discards it puts the write cursor back to the line's start, takes no
\* line slot, and gives back the byte budget the line's bytes had taken, so that
\* the call goes on as if the line had not been in the stream.
C28_NotificationFree ==
    [][ DiscardsLine =>
          /\ c' = raw_lines[lines]
          /\ lines' = lines /\ raw_lines' = raw_lines
          /\ rem' + c' = rem + c ]_vars


(***************************************************************************)
(* More of the flattener's properties, checked under SpecFlatten.          *)
(***************************************************************************)
\* C29: every call of udiald_tty_flatten_result returns, whatever the buffer
\* holds, and leaves in flat_buf a string that ends with its NUL inside flat_buf,
\* also when the quoted, separated lines are longer than flat_buf.
C29_FlattenReturns ==
    [][ FlattenCall => flat_pc' = "returned" /\ Len(flat_buf') <= FlatEnd ]_vars


(***************************************************************************)
(* More of the session's properties, checked under Spec.                   *)
(***************************************************************************)
\* The positions of the puts whose failure is reported with the response.
ReportingPuts == { "check_sim_put", "enter_pin", "probe_put", "set_mode" }

\* C30: a struct udiald_tty_read is read only after udiald_tty_get has filled it
\* in the same phase.  The step that reports a failed put, the get having been
\* skipped, therefore reads no buffer, and none of its outcomes is that of
\* reading one that was never filled (a fault).
C30_ReadAfterGet ==
    [][ (pc \in ReportingPuts /\ pc' # pc) => pc' # "crashed" ]_vars


\* The status query of the supervise loop.
StatusQuery == At("AT+COPS?;+CSQ\r")

\* C31: the status query is transmitted only by the put of line 690, and that put
\* is made with connected = 1 written and persisted by the first pass of the
\* loop; a check (the loop test of line 674, or the test after the sleep, line
\* 681) that finds a signal recorded leaves the loop for udiald_connect_finish
\* with nothing transmitted.
C31_SuperviseLoop ==
    [][ /\ (StatusQuery \in sent' /\ StatusQuery \notin sent) => pc = "query_put"
        /\ (pc = "query_put" /\ pc' # pc) =>
              status >= 0 /\ uci.connected = "1" /\ saved.connected = "1"
        /\ (pc \in { "loop_top", "sleep" } /\ signaled # 0 /\ pc' # pc) =>
              pc' = "finish" /\ sent' = sent ]_vars

\* The loop was left after the sleep or at the top of a later pass, with a signal
\* recorded and the status query transmitted in the first pass.
C31_Witness ==
    /\ pc = "finish"
    /\ status >= 1
    /\ signaled # 0
    /\ StatusQuery \in sent
    /\ saved.connected = "1"


(***************************************************************************)
(* The recording of signals, checked under SpecCatch.                      *)
(***************************************************************************)

\* The handlers are switched: the catch handler is installed for all four signals.
Switched == \A sig \in { SIGINT, SIGTERM, SIGHUP, SIGCHLD } : handler[sig] = "catch"

\* A step of a signal's delivery or of its handler, not of main.
HandlerStep == pc' = pc \/ pc' = "in_handler" \/ pc = "in_handler"

\* C32 as stated: once the handlers are switched the recorded signal number
\* changes only from 0, and then to the number of the first signal delivered,
\* which is that of the outermost handler when handlers are in progress; the
\* steps of a delivery and of the handler leave the control fd and the signaled
\* flag bit unchanged.
C32_Original ==
    [][ Switched =>
          /\ signaled' # signaled =>
                signaled = 0 /\ (catching # << >> => signaled' = catching[1])
          /\ HandlerStep => ctlfd' = ctlfd /\ flag_signaled' = flag_signaled ]_vars

\* C32 amended: once the handlers are switched and while no catch handler is in
\* progress, a recorded number other than 0 does not change and no handler gets
\* to its assignment any more; a handler gets to its assignment only when it
\* found the number 0; when the last handler in progress returns the number is
\* that of the first signal delivered.  In between, a handler that interrupted
\* the first one records its own number, which the first one overwrites.  The
\* end of the child that is delivered with no handler in progress and the
\* number 0 records SIGCHLD.  The steps of a delivery and of the handler leave
\* the control fd and the flag bit unchanged.
C32_Amended ==
    [][ Switched =>
          /\ (catching = << >> /\ signaled # 0) =>
                signaled' = signaled /\ catching' = << >>
          /\ Len(catching') > Len(catching) => signaled = 0 /\ signaled' = 0
          /\ (catching # << >> /\ catching' = << >>) => signaled' = catching[1]
          /\ (catching = << >> /\ catching' = << >> /\ signaled = 0 /\ pppd' = "zombie"
                /\ pppd = "running") => signaled' = SIGCHLD
          /\ HandlerStep => ctlfd' = ctlfd /\ flag_signaled' = flag_signaled ]_vars

\* The handler of SIGTERM interrupted the sleep of the loop and found 0; the end
\* of the child interrupted it before its assignment and recorded SIGCHLD.
C32_Witness ==
    /\ Switched
    /\ catching = << SIGTERM >>
    /\ interrupted = "sleep"
    /\ signaled = SIGCHLD
    /\ pppd = "zombie"

====
